---- MODULE Spec2Model ----
(***************************************************************************)
(* State-machine model of the dynamic constellation system of              *)
(* src/src/background/ParticleField.ts (class ParticleField).              *)
(*                                                                         *)
(* Fixed-point conventions (TLA+ has no reals):                            *)
(*   time, durations        milliseconds            (0.016 s  -> 16)       *)
(*   positions, velocities  1/1000 world unit       (0.03     -> 30)       *)
(*   opacity, progress, spread ratio, scores, NDC paddings: 1/1000         *)
(*   template coordinates   1/1000 template unit    (1.5      -> 1500)     *)
(* Division rounds down.  Squared distances are taken on coordinates       *)
(* reduced to DistUnit (1/20 world unit) so that they fit 32-bit integers. *)
(* Template, star and edge indices are 1-based (0-based in the source).    *)
(*                                                                         *)
(* Inputs are restricted to particles with z = 0 and no z velocity, and to *)
(* a camera at rest (pointer centred, no scroll): the projection of a      *)
(* particle is then x / HalfW, y / HalfH with HalfH = 500 tan(37.5 deg).   *)
(***************************************************************************)
EXTENDS Integers, Sequences, FiniteSets, TLC

(* ---------------- bounds of the model ---------------- *)
NumParticles == 23
MaxTime == 9100
MaxResizes == 1
ResizeStride == 64

(* ---------------- tuning constants (ParticleField.ts 150-178) ---------- *)
CLUSTER_SEARCH_INTERVAL == 3000
LINE_DRAW_DURATION == 500
LINE_STAGGER == 400
FLASH_DURATION == 300
FLASH_INTENSITY == 5000
FADE_DURATION == 1500
SPREAD_FADE_START == 1800
SPREAD_DISSOLVE == 2500
REPULSION_FORCE == 30
STAR_BOOST_MAX == 2500
GRID_CELL_SIZE == 80000
GRID_SIZE == 15
WRAP_DETECT_DIST == 400000
SPAWN_SCREEN_PADDING == 180
DESPAWN_SCREEN_PADDING == 350
MIN_ONSCREEN_LIFETIME == 1500
MATCH_ANGLE_STEPS == 12
MATCH_POOL_MULTIPLIER == 3
MATCH_SCALE_VARIANTS == <<700, 850, 1000>>
MATCH_QUALITY_THRESHOLD == 1150
CLUSTER_BLOCK_TRY_COUNT == 18
ACTIVE_PATTERN_PENALTY == 80
PATTERN_COOLDOWN_SECONDS == 12000
PATTERN_COOLDOWN_PENALTY == 140
MATCH_TOP_PATTERN_CHOICES == 4
MinBlockParticles == 5
FrameDt == 16
WorldBound == 600000
RepulsionMinDist == 100
LineDimFactor == 150
HalfH == 383664
DistUnit == 50

(* states of a constellation, in lifecycle order (const enum, 109-114) *)
Forming == 0
Active == 1
Fading == 2
Dissolved == 3

(* ---------------- arithmetic ---------------- *)
Abs(a) == IF a < 0 THEN -a ELSE a
Min(a, b) == IF a < b THEN a ELSE b
Max(a, b) == IF a > b THEN a ELSE b

RECURSIVE SqrtSearch(_, _, _)
SqrtSearch(n, lo, hi) ==
    IF lo >= hi THEN lo
    ELSE LET mid == (lo + hi + 1) \div 2
         IN  IF mid * mid <= n THEN SqrtSearch(n, mid, hi)
             ELSE SqrtSearch(n, lo, mid - 1)

(* Math.sqrt, rounded down *)
ISqrt(n) == SqrtSearch(n, 0, 46340)

(* dx*dx + dy*dy in DistUnit^2 *)
DistSq(dx, dy) ==
    LET ax == Abs(dx) \div DistUnit
        ay == Abs(dy) \div DistUnit
    IN  ax * ax + ay * ay

(* Math.sqrt(dx*dx + dy*dy) in 1/1000 world unit; exact to the unit when *)
(* both components are below 30 world units                              *)
Hypot(dx, dy) ==
    IF Abs(dx) <= 30000 /\ Abs(dy) <= 30000
    THEN ISqrt(dx * dx + dy * dy)
    ELSE DistUnit * ISqrt(DistSq(dx, dy))

RECURSIVE SumSeq(_)
SumSeq(s) == IF s = <<>> THEN 0 ELSE Head(s) + SumSeq(Tail(s))

RECURSIVE MaxSeq(_)
MaxSeq(s) == IF Len(s) = 1 THEN s[1] ELSE Max(Head(s), MaxSeq(Tail(s)))

RECURSIVE MinSeq(_)
MinSeq(s) == IF Len(s) = 1 THEN s[1] ELSE Min(Head(s), MinSeq(Tail(s)))

SeqRange(s) == {s[i] : i \in 1..Len(s)}

(* the sequence f with every entry computed (once) *)
Computed(f) == f \o <<>>

(* cos and sin of 2*pi*ai/MATCH_ANGLE_STEPS, in 1/1000 *)
CosTable == <<1000, 866, 500, 0, -500, -866, -1000, -866, -500, 0, 500, 866>>
SinTable == <<0, 500, 866, 1000, 866, 500, 0, -500, -866, -1000, -866, -500>>

(* ---------------- pattern library ---------------- *)
CONSTELLATION_DEFS == <<
  (* Orion *)
  [stars |-> << <<1000, 8000>>, <<4000, 8000>>,
                <<1500, 5500>>, <<2500, 5500>>, <<3500, 5500>>,
                <<500, 2000>>, <<4500, 2000>>, <<2500, 3500>> >>,
   lines |-> << <<1, 3>>, <<2, 5>>, <<3, 4>>, <<4, 5>>, <<3, 6>>, <<5, 7>>,
                <<4, 8>> >>],
  (* Big Dipper *)
  [stars |-> << <<0, 0>>, <<1800, 400>>, <<3500, 200>>, <<5000, 1200>>,
                <<5500, 3000>>, <<4000, 3800>>, <<5200, 4500>> >>,
   lines |-> << <<1, 2>>, <<2, 3>>, <<3, 4>>, <<4, 5>>, <<5, 6>>, <<6, 7>>,
                <<7, 4>> >>],
  (* Cassiopeia *)
  [stars |-> << <<0, 2000>>, <<1500, 0>>, <<3000, 1800>>, <<4500, 0>>,
                <<6000, 2000>> >>,
   lines |-> << <<1, 2>>, <<2, 3>>, <<3, 4>>, <<4, 5>> >>],
  (* Cygnus *)
  [stars |-> << <<3000, 0>>, <<3000, 2000>>, <<3000, 4000>>, <<3000, 6000>>,
                <<500, 3000>>, <<5500, 3000>> >>,
   lines |-> << <<1, 2>>, <<2, 3>>, <<3, 4>>, <<5, 3>>, <<3, 6>> >>],
  (* Scorpius *)
  [stars |-> << <<1000, 5000>>, <<2000, 4500>>, <<2500, 3500>>, <<2500, 2500>>,
                <<3000, 1500>>, <<4000, 1000>>, <<5000, 1500>>, <<5500, 2500>> >>,
   lines |-> << <<1, 2>>, <<2, 3>>, <<3, 4>>, <<4, 5>>, <<5, 6>>, <<6, 7>>,
                <<7, 8>> >>],
  (* Lyra *)
  [stars |-> << <<2000, 5000>>, <<1000, 3000>>, <<3000, 3000>>, <<1500, 1500>>,
                <<2500, 1500>> >>,
   lines |-> << <<1, 2>>, <<1, 3>>, <<2, 4>>, <<3, 5>>, <<4, 5>> >>],
  (* Gemini *)
  [stars |-> << <<0, 6000>>, <<500, 4000>>, <<1000, 2000>>, <<1500, 0>>,
                <<3000, 6000>>, <<2500, 4000>>, <<2000, 2000>>, <<1800, 500>> >>,
   lines |-> << <<1, 2>>, <<2, 3>>, <<3, 4>>, <<5, 6>>, <<6, 7>>, <<7, 8>>,
                <<1, 5>>, <<3, 7>> >>]
>>

NumPatterns == Len(CONSTELLATION_DEFS)
Patterns == 1..NumPatterns

(* a template of four stars joined by three edges; the library has none *)
(* with three edges, so the forming timeline of one is followed on this *)
THREE_EDGE_DEF ==
  [stars |-> << <<0, 0>>, <<1000, 1500>>, <<2000, 0>>, <<3000, 1500>> >>,
   lines |-> << <<1, 2>>, <<2, 3>>, <<3, 4>> >>]
ThreeEdgePattern == NumPatterns + 1

(* CONSTELLATION_DEFS[lc.patternIndex] *)
TemplateDef(p) == IF p \in Patterns THEN CONSTELLATION_DEFS[p] ELSE THREE_EDGE_DEF

StarCount(p) == Len(TemplateDef(p).stars)
LineCount(p) == Len(TemplateDef(p).lines)

(* template points relative to the template's centre *)
CenteredStars(p) ==
    LET Centered(st, n) ==
            LET Shifted(cx, cy) ==
                    Computed([i \in 1..n |-> <<st[i][1] - cx, st[i][2] - cy>>])
            IN  Shifted(SumSeq([i \in 1..n |-> st[i][1]]) \div n,
                        SumSeq([i \in 1..n |-> st[i][2]]) \div n)
    IN  Centered(TemplateDef(p).stars, StarCount(p))

PatternSpan(p) ==
    LET Extent(xs, ys) ==
            Max(Max(MaxSeq(xs) - MinSeq(xs), MaxSeq(ys) - MinSeq(ys)), 1000)
        Span(cs) == Extent(Computed([i \in 1..Len(cs) |-> cs[i][1]]),
                           Computed([i \in 1..Len(cs) |-> cs[i][2]]))
    IN  Span(CenteredStars(p))

PATTERN_SPANS == [p \in Patterns |-> PatternSpan(p)]
AVG_PATTERN_SPAN == SumSeq(PATTERN_SPANS) \div NumPatterns
PATTERN_STAR_COUNTS == [p \in Patterns |-> StarCount(p)]
(* in 1/1000 star *)
AVG_PATTERN_STAR_COUNT == (1000 * SumSeq(PATTERN_STAR_COUNTS)) \div NumPatterns


(* ---------------- state ---------------- *)
VARIABLES
    time,                  \* this.time
    disposed,              \* this.disposed
    isMobile,              \* window.innerWidth < 768 at construction
    aspect,                \* camera.aspect, in 1/1000
    particlePositions,     \* [particle -> <<x, y>>]
    particleVelocities,    \* [particle -> <<vx, vy>>]
    particleBoost,         \* [particle -> boost in 1/1000]
    liveConstellations,    \* sequence of LiveConstellation records
    usedParticleSet,       \* the claims table
    lastClusterSearch,
    colorCycleIndex,
    patternCooldownUntil,  \* [pattern -> time]
    sceneLines,            \* ids of the LineSegments attached to the scene
    geometryDisposals,     \* [id -> number of lineGeometry.dispose() calls]
    dissolveCalls,         \* [id -> number of dissolveConstellation calls]
    stateTrace,            \* [id -> sequence of values assigned to lc.state]
    spawnedIndices,        \* [id -> particleIndices the constellation was given]
    lastSearch,            \* outcome of the latest search tick
    resizes,               \* number of resize events so far
    matchTrial,            \* a template set out as a block, and what the matcher made of it
    rafQueue,              \* ids of the requestAnimationFrame callbacks still pending
    rafId,                 \* this.rafId, the id of the latest request
    contextLost            \* the WebGL context of the canvas is lost

vars == <<time, disposed, isMobile, aspect, particlePositions,
          particleVelocities, particleBoost, liveConstellations,
          usedParticleSet, lastClusterSearch, colorCycleIndex,
          patternCooldownUntil, sceneLines, geometryDisposals, dissolveCalls,
          stateTrace, spawnedIndices, lastSearch, resizes, matchTrial,
          rafQueue, rafId, contextLost>>

Particles == 1..NumParticles
ParticleSeq == [i \in Particles |-> i]

maxConstellations == IF isMobile THEN 2 ELSE 4

(* half the visible width at z = 0, from the camera's aspect *)
HalfW == (HalfH * aspect) \div 1000

(* ---------------- projection and screen tests ---------------- *)
(* -1 - padding <= ndc <= 1 + padding on both axes *)
WithinPadding(xy, padding) ==
    /\ Abs(xy[1]) * 1000 <= (1000 + padding) * HalfW
    /\ Abs(xy[2]) * 1000 <= (1000 + padding) * HalfH

isParticleWithinScreenPadding(particleIndex, padding) ==
    WithinPadding(particlePositions[particleIndex], padding)

(* variant of isConstellationWithinScreenPadding that wants every claimed *)
(* particle on the screen                                                 *)
isConstellationWhollyWithinScreenPadding(lc, padding) ==
    \A k \in 1..Len(lc.particleIndices) :
        isParticleWithinScreenPadding(lc.particleIndices[k], padding)

isConstellationWithinScreenPadding(lc, padding) ==
    \E k \in 1..Len(lc.particleIndices) :
        isParticleWithinScreenPadding(lc.particleIndices[k], padding)

(* Math.min(Math.floor((ndc - screenMin) / screenCellSize), GRID_SIZE - 1) *)
(* for a coordinate c with half extent h:  ndc = c / h                       *)
GridCoord(c, h) ==
    LET screenRange == 2 * (1000 + SPAWN_SCREEN_PADDING)
        reached == {k \in 1..(GRID_SIZE - 1) :
                      c * (GRID_SIZE * 100) >=
                        h * ((screenRange \div 10) * k
                             - GRID_SIZE * ((1000 + SPAWN_SCREEN_PADDING) \div 10))}
    IN  Cardinality(reached)

(* variant of GridKey that indexes particles outside the padded box too *)
GridKeyIgnoringPadding(i) ==
    IF i \in usedParticleSet THEN -1
    ELSE GridCoord(particlePositions[i][2], HalfH) * GRID_SIZE
         + GridCoord(particlePositions[i][1], HalfW)

(* variant of GridKey that indexes claimed particles too *)
GridKeyIndexingClaimed(i) ==
    IF ~WithinPadding(particlePositions[i], SPAWN_SCREEN_PADDING) THEN -1
    ELSE GridCoord(particlePositions[i][2], HalfH) * GRID_SIZE
         + GridCoord(particlePositions[i][1], HalfW)

(* grid key of particle i, or -1 when it is skipped by the index builder *)
GridKey(i) ==
    IF i \in usedParticleSet THEN -1
    ELSE IF ~WithinPadding(particlePositions[i], SPAWN_SCREEN_PADDING) THEN -1
    ELSE GridCoord(particlePositions[i][2], HalfH) * GRID_SIZE
         + GridCoord(particlePositions[i][1], HalfW)

(* the candidate blocks: one per 2x2 window (gx, gy) that holds at least *)
(* 5 indexed particles                                                  *)
CandidateBlocks ==
    LET Blocks(key) ==
            LET cell(k) == SelectSeq(ParticleSeq, LAMBDA i : key[i] = k)
                collected(gx, gy) ==
                    cell(gy * GRID_SIZE + gx) \o cell(gy * GRID_SIZE + gx + 1)
                    \o cell((gy + 1) * GRID_SIZE + gx)
                    \o cell((gy + 1) * GRID_SIZE + gx + 1)
                windows == {w \in (0..(GRID_SIZE - 2)) \X (0..(GRID_SIZE - 2)) :
                              \E k \in {key[i] : i \in Particles} \ {-1} :
                                 /\ (k % GRID_SIZE) - w[1] \in {0, 1}
                                 /\ (k \div GRID_SIZE) - w[2] \in {0, 1}}
                block(w, c, n) ==
                    [gx |-> w[1], gy |-> w[2], particles |-> c,
                     centerX |-> IF n = 0 THEN 0
                                 ELSE SumSeq([j \in 1..n |-> particlePositions[c[j]][1]])
                                        \div n,
                     centerY |-> IF n = 0 THEN 0
                                 ELSE SumSeq([j \in 1..n |-> particlePositions[c[j]][2]])
                                        \div n]
                sized(w, c) == block(w, c, Len(c))
            IN  {b \in {sized(w, collected(w[1], w[2])) : w \in windows} :
                   Len(b.particles) >= MinBlockParticles}
    IN  Blocks(Computed([i \in Particles |-> GridKey(i)]))


(* ---------------- shape matcher ---------------- *)
(* Array.prototype.sort with comparator key(a) - key(b): stable insertion *)
RECURSIVE InsertByKey(_, _, _)
InsertByKey(sorted, x, key) ==
    IF sorted = <<>> THEN <<x>>
    ELSE IF key[x] < key[Head(sorted)] THEN <<x>> \o sorted
    ELSE <<Head(sorted)>> \o InsertByKey(Tail(sorted), x, key)

RECURSIVE SortByKey(_, _)
SortByKey(s, key) ==
    IF s = <<>> THEN <<>>
    ELSE InsertByKey(SortByKey(SubSeq(s, 1, Len(s) - 1), key), s[Len(s)], key)

(* index of the first smallest entry of a non-empty sequence of numbers, *)
(* skipping the positions in used; 0 when every position is used         *)
RECURSIVE FirstMin(_, _, _, _)
FirstMin(d, used, k, best) ==
    IF k > Len(d) THEN best
    ELSE IF k \in used THEN FirstMin(d, used, k + 1, best)
    ELSE IF best = 0 \/ d[k] < d[best] THEN FirstMin(d, used, k + 1, k)
    ELSE FirstMin(d, used, k + 1, best)

(* variant of GreedyAssign that does not mark the pool particles it takes *)
RECURSIVE GreedyAssignReusing(_, _, _, _, _)
GreedyAssignReusing(pool, targets, starOrder, k, acc) ==
    IF k > Len(starOrder) THEN acc
    ELSE
      LET starIdx == starOrder[k]
          Distances(t) ==
              Computed([pi \in 1..Len(pool) |->
                  DistSq(particlePositions[pool[pi]][1] - t[1],
                         particlePositions[pool[pi]][2] - t[2])])
          Take(d, bestPoolIdx) ==
              IF bestPoolIdx = 0 THEN [acc EXCEPT !.failed = TRUE]
              ELSE GreedyAssignReusing(pool, targets, starOrder, k + 1,
                     [failed |-> FALSE,
                      used |-> {},
                      assigned |-> [acc.assigned EXCEPT ![starIdx] = pool[bestPoolIdx]],
                      sumDistSq |-> acc.sumDistSq + d[bestPoolIdx],
                      maxDistSq |-> Max(acc.maxDistSq, d[bestPoolIdx])])
          Nearest(d) == Take(d, FirstMin(d, acc.used, 1, 0))
      IN  Nearest(Distances(targets[starIdx]))

(* the greedy assignment of one scale x rotation variant: the stars of    *)
(* starOrder[k..] take the nearest unused pool particle, outer stars first *)
RECURSIVE GreedyAssign(_, _, _, _, _)
GreedyAssign(pool, targets, starOrder, k, acc) ==
    IF k > Len(starOrder) THEN acc
    ELSE
      LET starIdx == starOrder[k]
          Distances(t) ==
              Computed([pi \in 1..Len(pool) |->
                  DistSq(particlePositions[pool[pi]][1] - t[1],
                         particlePositions[pool[pi]][2] - t[2])])
          Take(d, bestPoolIdx) ==
              IF bestPoolIdx = 0 THEN [acc EXCEPT !.failed = TRUE]
              ELSE GreedyAssign(pool, targets, starOrder, k + 1,
                     [failed |-> FALSE,
                      used |-> acc.used \cup {bestPoolIdx},
                      assigned |-> [acc.assigned EXCEPT ![starIdx] = pool[bestPoolIdx]],
                      sumDistSq |-> acc.sumDistSq + d[bestPoolIdx],
                      maxDistSq |-> Max(acc.maxDistSq, d[bestPoolIdx])])
          Nearest(d) == Take(d, FirstMin(d, acc.used, 1, 0))
      IN  Nearest(Distances(targets[starIdx]))

(* one variant: [ok, particleIndices, score] *)
MatchVariant(pool, centeredStars, starOrder, ccx, ccy, scale, ai) ==
    LET starCount == Len(centeredStars)
        cosT == CosTable[ai + 1]
        sinT == SinTable[ai + 1]
        targets == Computed([i \in 1..starCount |->
            << ccx + (((centeredStars[i][1] * cosT - centeredStars[i][2] * sinT)
                       \div 1000) * scale) \div 1000,
               ccy + (((centeredStars[i][1] * sinT + centeredStars[i][2] * cosT)
                       \div 1000) * scale) \div 1000 >>])
        Judge(r, maxDist, score) ==
            IF r.failed \/ maxDist * 10 > scale * 24 \/ score > MATCH_QUALITY_THRESHOLD
            THEN [ok |-> FALSE, particleIndices |-> <<>>, score |-> 0]
            ELSE [ok |-> TRUE, particleIndices |-> r.assigned, score |-> score]
        (* maxDist, and rmsError / max(scale, 1) *)
        Measure(r) ==
            Judge(r, DistUnit * ISqrt(r.maxDistSq),
                  (DistUnit * ISqrt(r.sumDistSq \div starCount) * 1000)
                    \div Max(scale, 1000))
    IN  Measure(GreedyAssign(pool, targets, starOrder, 1,
                 [failed |-> FALSE, used |-> {},
                  assigned |-> Computed([i \in 1..starCount |-> 0]),
                  sumDistSq |-> 0, maxDistSq |-> 0]))

(* variant of BestVariant that keeps the first accepted variant *)
RECURSIVE BestVariantKeepingFirst(_, _, _)
BestVariantKeepingFirst(results, k, best) ==
    IF k > Len(results) THEN best
    ELSE IF results[k].ok /\ ~best.ok
         THEN BestVariantKeepingFirst(results, k + 1, results[k])
         ELSE BestVariantKeepingFirst(results, k + 1, best)

(* keeps the first variant of lowest score (best is replaced only by a *)
(* strictly lower score)                                               *)
RECURSIVE BestVariant(_, _, _)
BestVariant(results, k, best) ==
    IF k > Len(results) THEN best
    ELSE IF results[k].ok /\ (~best.ok \/ results[k].score < best.score)
         THEN BestVariant(results, k + 1, results[k])
         ELSE BestVariant(results, k + 1, best)

NoMatch == [ok |-> FALSE, particleIndices |-> <<>>, score |-> 0]

(* no template has been set out for the matcher *)
NoTrial == [patternIndex |-> 0, ai |-> 0, scale |-> 0, done |-> FALSE,
            result |-> NoMatch]

tryMatchPatternToBlock(particleIndices, p, blockCenterX, blockCenterY) ==
    LET (* every scale x rotation variant, and the best of them *)
        Variants(pool, centeredStars, starOrder, clusterCenterX, clusterCenterY,
                 baseScale) ==
            BestVariant(
              Computed(
                [v \in 1..(Len(MATCH_SCALE_VARIANTS) * MATCH_ANGLE_STEPS) |->
                  MatchVariant(pool, centeredStars, starOrder,
                      clusterCenterX, clusterCenterY,
                      (baseScale * MATCH_SCALE_VARIANTS[((v - 1) \div MATCH_ANGLE_STEPS) + 1])
                          \div 1000,
                      (v - 1) % MATCH_ANGLE_STEPS)]),
              1, NoMatch)
        clusterSpan(xs, ys) ==
            Max(Max(MaxSeq(xs) - MinSeq(xs), MaxSeq(ys) - MinSeq(ys)),
                (GRID_CELL_SIZE * 8) \div 10)
        radiusKey(centeredStars) ==
            Computed([i \in 1..Len(centeredStars) |->
                  -(centeredStars[i][1] * centeredStars[i][1]
                    + centeredStars[i][2] * centeredStars[i][2])])
        (* cluster centre and extent of the pool, then the variants *)
        Fit(pool, poolSize, xs, ys, starCount, centeredStars, patternSpan) ==
            Variants(pool, centeredStars,
                     SortByKey(Computed([i \in 1..starCount |-> i]),
                               radiusKey(centeredStars)),
                     SumSeq(xs) \div poolSize, SumSeq(ys) \div poolSize,
                     (clusterSpan(xs, ys) * 1000) \div patternSpan)
        Located(pool, poolSize, starCount, centeredStars, patternSpan) ==
            IF poolSize < starCount THEN NoMatch
            ELSE Fit(pool, poolSize,
                     Computed([j \in 1..poolSize |-> particlePositions[pool[j]][1]]),
                     Computed([j \in 1..poolSize |-> particlePositions[pool[j]][2]]),
                     starCount, centeredStars, patternSpan)
        Pooled(sortedPool, poolSize, starCount, centeredStars, patternSpan) ==
            Located(SubSeq(sortedPool, 1, poolSize), poolSize, starCount,
                    centeredStars, patternSpan)
        Sorted(sortedPool, starCount, centeredStars, patternSpan) ==
            Pooled(sortedPool,
                   Min(Len(sortedPool),
                       Max(starCount * MATCH_POOL_MULTIPLIER, starCount + 4)),
                   starCount, centeredStars, patternSpan)
        centerKey == Computed([i \in Particles |->
                  DistSq(particlePositions[i][1] - blockCenterX,
                         particlePositions[i][2] - blockCenterY)])
        Match(starCount, centeredStars, patternSpan) ==
            IF Len(particleIndices) < starCount THEN NoMatch
            ELSE Sorted(SortByKey(particleIndices, centerKey), starCount,
                        centeredStars, patternSpan)
    IN  Match(StarCount(p), CenteredStars(p), PatternSpan(p))


(* ---------------- pattern selector ---------------- *)
NonDissolved(live) ==
    {k \in 1..Len(live) : live[k].state /= Dissolved}

(* match.score after the span and complexity corrections and both penalties *)
TotalScore(p, matchScore, usedPatterns, now) ==
    LET spanNorm == (PATTERN_SPANS[p] * 1000) \div AVG_PATTERN_SPAN
        spanCorrectedScore == (matchScore * 1000) \div Max(spanNorm, 400)
        complexityRatio == AVG_PATTERN_STAR_COUNT \div Max(PATTERN_STAR_COUNTS[p], 1)
        complexityAdjustedScore ==
            (spanCorrectedScore * ISqrt(Max(complexityRatio, 700) * 1000)) \div 1000
        activePenalty == IF p \in usedPatterns THEN ACTIVE_PATTERN_PENALTY ELSE 0
        cooldownRemaining == patternCooldownUntil[p] - now
        cooldownPenalty ==
            IF cooldownRemaining > 0
            THEN (PATTERN_COOLDOWN_PENALTY
                    * Min(cooldownRemaining, PATTERN_COOLDOWN_SECONDS))
                 \div PATTERN_COOLDOWN_SECONDS
            ELSE 0
    IN  complexityAdjustedScore + activePenalty + cooldownPenalty

(* the blocks a tick may try: all of them, or any CLUSTER_BLOCK_TRY_COUNT *)
(* of them when the shuffle leaves some out                               *)
TriedBlockSets(blocks) ==
    IF Cardinality(blocks) <= CLUSTER_BLOCK_TRY_COUNT THEN {blocks}
    ELSE {B \in SUBSET blocks : Cardinality(B) = CLUSTER_BLOCK_TRY_COUNT}

(* what pickCandidateByScore may return for the blocks tried: a template   *)
(* among the MATCH_TOP_PATTERN_CHOICES best-scoring ones (every softmax    *)
(* weight is positive), with that template's best assignment; equal scores *)
(* are ordered by the shuffles, so either side of a tie may come first     *)
SelectionsFor(tried, usedPatterns, now) ==
    LET contents == {[particles |-> b.particles, centerX |-> b.centerX,
                      centerY |-> b.centerY] : b \in tried}
        matches == {[p |-> p,
                     match |-> tryMatchPatternToBlock(b.particles, p,
                                                      b.centerX, b.centerY)] :
                    b \in contents, p \in Patterns}
        Scored(matched) ==
            {[p |-> r.p,
              particleIndices |-> r.match.particleIndices,
              score |-> TotalScore(r.p, r.match.score, usedPatterns, now)] :
             r \in {q \in matched : q.match.ok}}
        (* bestMatchByPattern, with every assignment that ties for a template *)
        Best(scored) ==
            {m \in scored : \A n \in scored : n.p = m.p => m.score <= n.score}
        (* topCandidates, then what pickCandidateByScore may return *)
        Picked(best, patternCandidates, topCount) ==
            LET bestScore(p) == (CHOOSE m \in best : m.p = p).score
                top == UNION {T \in SUBSET patternCandidates :
                                /\ Cardinality(T) = topCount
                                /\ \A p \in T : \A q \in patternCandidates \ T :
                                      bestScore(p) <= bestScore(q)}
            IN  {[patternIndex |-> m.p, particleIndices |-> m.particleIndices] :
                   m \in {n \in best : n.p \in top}}
        Counted(best, patternCandidates) ==
            Picked(best, patternCandidates,
                   Min(Cardinality(patternCandidates), MATCH_TOP_PATTERN_CHOICES))
        Ranked(best) == Counted(best, {m.p : m \in best})
    IN  Ranked(Best(Scored(matches)))

(* variant of atCapacity that compares with > instead of >= *)
atCapacityOffByOne(live) ==
    Cardinality(NonDissolved(live)) > maxConstellations

(* activeCount >= this.maxConstellations, the first return of findCluster *)
atCapacity(live) ==
    Cardinality(NonDissolved(live)) >= maxConstellations

(* what findCluster may select at time now; {} when it returns before the *)
(* selection (at capacity, no candidate block, or no template matched)    *)
findClusterSelections(now) ==
    LET usedPatterns == {liveConstellations[k].patternIndex :
                           k \in NonDissolved(liveConstellations)}
        Search(candidates) ==
            IF candidates = {} THEN {}
            ELSE UNION {SelectionsFor(B, usedPatterns, now) :
                          B \in TriedBlockSets(candidates)}
    IN  IF atCapacity(liveConstellations) THEN {}
        ELSE Search(CandidateBlocks)

(* max pairwise distance of the anchors, at least one world unit *)
InitialMaxDist(anchors) ==
    LET n == Len(anchors)
        Largest(d) == CHOOSE v \in d : \A w \in d : w <= v
        AtLeastOne(maxDist) == IF maxDist < 1000 THEN 1000 ELSE maxDist
    IN  AtLeastOne(Largest(
          {Hypot(anchors[i][1] - anchors[j][1], anchors[i][2] - anchors[j][2]) :
             i \in 1..n, j \in 1..n}))

(* variant of AnchorSnapshot whose buffer has room for one more star, *)
(* left at the origin                                                *)
AnchorSnapshotPadded(chosen, needed) ==
    [i \in 1..(needed + 1) |->
        IF i <= needed THEN particlePositions[chosen[i]] ELSE <<0, 0>>]

(* the anchors: the position of each chosen particle at the spawn *)
AnchorSnapshot(chosen, needed) ==
    [i \in 1..needed |-> particlePositions[chosen[i]]]

(* the LiveConstellation findCluster pushes for a selection *)
NewConstellation(sel, now) ==
    LET chosen == sel.particleIndices
        Pushed(anchors, lineCount) ==
            [id |-> colorCycleIndex,
             patternIndex |-> sel.patternIndex,
             state |-> Forming,
             particleIndices |-> chosen,
             anchorPositions |-> anchors,
             initialMaxDist |-> InitialMaxDist(anchors),
             opacity |-> 0,
             formStartTime |-> now,
             fadeStartTime |-> 0,
             spreadRatio |-> 1000,
             lineProgress |-> [li \in 1..lineCount |-> 0],
             lineFlashTimers |-> [li \in 1..lineCount |-> -1000],
             lineOpacity |-> 0,
             lineVertices |-> [li \in 1..lineCount |-> <<<<0, 0>>, <<0, 0>>>>]]
    IN  Pushed(AnchorSnapshot(chosen, StarCount(sel.patternIndex)),
               LineCount(sel.patternIndex))


(* ---------------- lifecycle ---------------- *)
(* a / b rounded to the nearest integer, for b > 0 *)
RoundDiv(a, b) ==
    IF a >= 0 THEN (2 * a + b) \div (2 * b) ELSE -((2 * (-a) + b) \div (2 * b))

(* variant of computeSpread that measures the drift modulo a tenth of    *)
(* the size of the figure                                                *)
computeSpreadModuloSize(lc) ==
    LET n == Len(lc.particleIndices)
        totalDisp == SumSeq([i \in 1..n |->
            Hypot(particlePositions[lc.particleIndices[i]][1] - lc.anchorPositions[i][1],
                  particlePositions[lc.particleIndices[i]][2] - lc.anchorPositions[i][2])])
    IN  1000 + (((totalDisp \div n) % (lc.initialMaxDist \div 10)) * 1000)
                  \div lc.initialMaxDist

computeSpread(lc) ==
    LET n == Len(lc.particleIndices)
        totalDisp == SumSeq([i \in 1..n |->
            Hypot(particlePositions[lc.particleIndices[i]][1] - lc.anchorPositions[i][1],
                  particlePositions[lc.particleIndices[i]][2] - lc.anchorPositions[i][2])])
    IN  1000 + ((totalDisp \div n) * 1000) \div lc.initialMaxDist

detectWrap(lc) ==
    \E i \in 1..Len(lc.particleIndices) :
        \/ Abs(particlePositions[lc.particleIndices[i]][1] - lc.anchorPositions[i][1])
             > WRAP_DETECT_DIST
        \/ Abs(particlePositions[lc.particleIndices[i]][2] - lc.anchorPositions[i][2])
             > WRAP_DETECT_DIST

(* variant of FormingLine that staggers edge li by li, not li - 1, steps *)
FormingLineLateStagger(lc, li, elapsed) ==
    LET lineElapsed == elapsed - li * LINE_STAGGER
        wasComplete == lc.lineProgress[li] >= 1000
        progress == Min((lineElapsed * 1000) \div LINE_DRAW_DURATION, 1000)
    IN  IF lineElapsed <= 0
        THEN [progress |-> 0, flash |-> lc.lineFlashTimers[li]]
        ELSE [progress |-> progress,
              flash |-> IF ~wasComplete /\ progress >= 1000 THEN FLASH_DURATION
                        ELSE lc.lineFlashTimers[li]]

(* variant of FormingLine that restarts the flash in every completed frame *)
FormingLineReflashing(lc, li, elapsed) ==
    LET lineElapsed == elapsed - (li - 1) * LINE_STAGGER
        progress == Min((lineElapsed * 1000) \div LINE_DRAW_DURATION, 1000)
    IN  IF lineElapsed <= 0
        THEN [progress |-> 0, flash |-> lc.lineFlashTimers[li]]
        ELSE [progress |-> progress,
              flash |-> IF progress >= 1000 THEN FLASH_DURATION
                        ELSE lc.lineFlashTimers[li]]

(* variant of FormingLine without the Math.min on the progress *)
FormingLineUnclamped(lc, li, elapsed) ==
    LET lineElapsed == elapsed - (li - 1) * LINE_STAGGER
        wasComplete == lc.lineProgress[li] >= 1000
        progress == (lineElapsed * 1000) \div LINE_DRAW_DURATION
    IN  IF lineElapsed <= 0
        THEN [progress |-> 0, flash |-> lc.lineFlashTimers[li]]
        ELSE [progress |-> progress,
              flash |-> IF ~wasComplete /\ progress >= 1000 THEN FLASH_DURATION
                        ELSE lc.lineFlashTimers[li]]

(* progress and flash timer of edge li (1-based) after updateForming *)
FormingLine(lc, li, elapsed) ==
    LET lineElapsed == elapsed - (li - 1) * LINE_STAGGER
        wasComplete == lc.lineProgress[li] >= 1000
        progress == Min((lineElapsed * 1000) \div LINE_DRAW_DURATION, 1000)
    IN  IF lineElapsed <= 0
        THEN [progress |-> 0, flash |-> lc.lineFlashTimers[li]]
        ELSE [progress |-> progress,
              flash |-> IF ~wasComplete /\ progress >= 1000 THEN FLASH_DURATION
                        ELSE lc.lineFlashTimers[li]]

(* variant of FormingOpacity without the outer Math.min *)
FormingOpacityUnclamped(elapsed, formDuration) ==
    (elapsed * 1000) \div Min(formDuration, 1000)

(* Math.min(elapsed / Math.min(formDuration, 1.0), 1) *)
FormingOpacity(elapsed, formDuration) ==
    Min((elapsed * 1000) \div Min(formDuration, 1000), 1000)

(* variant of updateForming that does not wait for the flashes *)
updateFormingIgnoringFlashes(lc, now) ==
    LET elapsed == now - lc.formStartTime
        Formed(totalLines, line) ==
            LET allDone == \A li \in 1..totalLines : line[li].progress >= 1000
                formDuration == (totalLines - 1) * LINE_STAGGER + LINE_DRAW_DURATION
            IN  [lc EXCEPT
                   !.lineProgress = [li \in 1..totalLines |-> line[li].progress],
                   !.lineFlashTimers = [li \in 1..totalLines |-> line[li].flash],
                   !.opacity = FormingOpacity(elapsed, formDuration),
                   !.state = IF allDone THEN Active ELSE Forming]
        Lines(totalLines) ==
            Formed(totalLines,
                   Computed([li \in 1..totalLines |-> FormingLine(lc, li, elapsed)]))
    IN  Lines(LineCount(lc.patternIndex))

(* variant of updateForming that leaves Forming once every edge has begun *)
updateFormingOnceBegun(lc, now) ==
    LET elapsed == now - lc.formStartTime
        Formed(totalLines, line) ==
            LET allBegun == \A li \in 1..totalLines : line[li].progress > 0
                formDuration == (totalLines - 1) * LINE_STAGGER + LINE_DRAW_DURATION
                flashesDone == \A li \in 1..totalLines : line[li].flash <= 0
            IN  [lc EXCEPT
                   !.lineProgress = [li \in 1..totalLines |-> line[li].progress],
                   !.lineFlashTimers = [li \in 1..totalLines |-> line[li].flash],
                   !.opacity = FormingOpacity(elapsed, formDuration),
                   !.state = IF allBegun /\ flashesDone THEN Active ELSE Forming]
        Lines(totalLines) ==
            Formed(totalLines,
                   Computed([li \in 1..totalLines |-> FormingLine(lc, li, elapsed)]))
    IN  Lines(LineCount(lc.patternIndex))

updateForming(lc, now) ==
    LET elapsed == now - lc.formStartTime
        Formed(totalLines, line) ==
            LET allDone == \A li \in 1..totalLines : line[li].progress >= 1000
                formDuration == (totalLines - 1) * LINE_STAGGER + LINE_DRAW_DURATION
                flashesDone == \A li \in 1..totalLines : line[li].flash <= 0
            IN  [lc EXCEPT
                   !.lineProgress = [li \in 1..totalLines |-> line[li].progress],
                   !.lineFlashTimers = [li \in 1..totalLines |-> line[li].flash],
                   !.opacity = FormingOpacity(elapsed, formDuration),
                   !.state = IF allDone /\ flashesDone THEN Active ELSE Forming]
        Lines(totalLines) ==
            Formed(totalLines,
                   Computed([li \in 1..totalLines |-> FormingLine(lc, li, elapsed)]))
    IN  Lines(LineCount(lc.patternIndex))

(* variant of RepulsionImpulse that grows with the distance to the centre *)
RepulsionImpulseByDistance(lc) ==
    LET indices == lc.particleIndices
        n == Len(indices)
        push(dx, dy, dist) ==
            IF dist > RepulsionMinDist
            THEN <<RoundDiv(dx * REPULSION_FORCE, 1000),
                   RoundDiv(dy * REPULSION_FORCE, 1000)>>
            ELSE <<0, 0>>
        away(dx, dy) == push(dx, dy, Hypot(dx, dy))
        From(cx, cy) ==
            [i \in 1..n |-> away(particlePositions[indices[i]][1] - cx,
                                 particlePositions[indices[i]][2] - cy)]
    IN  From(SumSeq([i \in 1..n |-> particlePositions[indices[i]][1]]) \div n,
             SumSeq([i \in 1..n |-> particlePositions[indices[i]][2]]) \div n)

(* the impulse updateActive adds to the velocity of each particle *)
RepulsionImpulse(lc) ==
    LET indices == lc.particleIndices
        n == Len(indices)
        push(dx, dy, dist) ==
            IF dist > RepulsionMinDist
            THEN <<RoundDiv(dx * REPULSION_FORCE, dist),
                   RoundDiv(dy * REPULSION_FORCE, dist)>>
            ELSE <<0, 0>>
        away(dx, dy) == push(dx, dy, Hypot(dx, dy))
        From(cx, cy) ==
            [i \in 1..n |-> away(particlePositions[indices[i]][1] - cx,
                                 particlePositions[indices[i]][2] - cy)]
    IN  From(SumSeq([i \in 1..n |-> particlePositions[indices[i]][1]]) \div n,
             SumSeq([i \in 1..n |-> particlePositions[indices[i]][2]]) \div n)

(* variant of AddImpulses that holds each velocity component within one *)
(* world unit per frame                                                   *)
RECURSIVE AddImpulsesClamped(_, _, _, _)
AddImpulsesClamped(vel, indices, impulse, i) ==
    IF i > Len(indices) THEN vel
    ELSE AddImpulsesClamped(
           [vel EXCEPT ![indices[i]] =
               <<Max(-1000, Min(1000, @[1] + impulse[i][1])),
                 Max(-1000, Min(1000, @[2] + impulse[i][2]))>>],
           indices, impulse, i + 1)

RECURSIVE AddImpulses(_, _, _, _)
AddImpulses(vel, indices, impulse, i) ==
    IF i > Len(indices) THEN vel
    ELSE AddImpulses(
           [vel EXCEPT ![indices[i]] = <<@[1] + impulse[i][1], @[2] + impulse[i][2]>>],
           indices, impulse, i + 1)

(* variant of updateActive that waits for SPREAD_DISSOLVE *)
updateActiveFadingLate(lc, vel, now) ==
    LET Spread(spreadRatio, toFading) ==
            [lc |-> [lc EXCEPT
                       !.spreadRatio = spreadRatio,
                       !.state = IF toFading THEN Fading ELSE Active,
                       !.fadeStartTime = IF toFading THEN now ELSE @,
                       !.opacity = 1000],
             vel |-> AddImpulses(vel, lc.particleIndices, RepulsionImpulse(lc), 1)]
        Checked(spreadRatio) ==
            Spread(spreadRatio, spreadRatio >= SPREAD_DISSOLVE \/ detectWrap(lc))
    IN  Checked(computeSpread(lc))

(* variant of updateActive that takes the anchors anew in every frame *)
updateActiveReanchoring(lc, vel, now) ==
    LET Spread(spreadRatio, toFading) ==
            [lc |-> [lc EXCEPT
                       !.spreadRatio = spreadRatio,
                       !.state = IF toFading THEN Fading ELSE Active,
                       !.fadeStartTime = IF toFading THEN now ELSE @,
                       !.anchorPositions =
                          [i \in 1..Len(@) |-> particlePositions[lc.particleIndices[i]]],
                       !.opacity = 1000],
             vel |-> AddImpulses(vel, lc.particleIndices, RepulsionImpulse(lc), 1)]
        Checked(spreadRatio) ==
            Spread(spreadRatio, spreadRatio >= SPREAD_FADE_START \/ detectWrap(lc))
    IN  Checked(computeSpread(lc))

(* [lc, vel] after updateActive *)
updateActive(lc, vel, now) ==
    LET Spread(spreadRatio, toFading) ==
            [lc |-> [lc EXCEPT
                       !.spreadRatio = spreadRatio,
                       !.state = IF toFading THEN Fading ELSE Active,
                       !.fadeStartTime = IF toFading THEN now ELSE @,
                       !.opacity = 1000],
             vel |-> AddImpulses(vel, lc.particleIndices, RepulsionImpulse(lc), 1)]
        Checked(spreadRatio) ==
            Spread(spreadRatio, spreadRatio >= SPREAD_FADE_START \/ detectWrap(lc))
    IN  Checked(computeSpread(lc))

(* variant of FadingOpacity whose time-based opacity stops at 0.001 *)
FadingOpacityNeverZero(spreadRatio, timeElapsed) ==
    LET spreadOpacity ==
            IF spreadRatio >= SPREAD_DISSOLVE THEN 1
            ELSE IF spreadRatio <= SPREAD_FADE_START THEN 1000
            ELSE Max(1000 - ((spreadRatio - SPREAD_FADE_START) * 1000)
                              \div (SPREAD_DISSOLVE - SPREAD_FADE_START), 1)
        timeOpacity == Max(1000 - (timeElapsed * 1000) \div FADE_DURATION, 1)
    IN  Min(spreadOpacity, timeOpacity)

(* variant of FadingOpacity without the time-based opacity, until the   *)
(* fade duration is over                                                *)
FadingOpacityBySpreadOnly(spreadRatio, timeElapsed) ==
    IF spreadRatio >= SPREAD_DISSOLVE \/ timeElapsed >= FADE_DURATION THEN 0
    ELSE IF spreadRatio <= SPREAD_FADE_START THEN 1000
    ELSE 1000 - ((spreadRatio - SPREAD_FADE_START) * 1000)
                  \div (SPREAD_DISSOLVE - SPREAD_FADE_START)

(* lc.opacity in updateFading: the smaller of the spread-based and the *)
(* time-based opacity                                                   *)
FadingOpacity(spreadRatio, timeElapsed) ==
    LET spreadOpacity ==
            IF spreadRatio >= SPREAD_DISSOLVE THEN 0
            ELSE IF spreadRatio <= SPREAD_FADE_START THEN 1000
            ELSE 1000 - ((spreadRatio - SPREAD_FADE_START) * 1000)
                          \div (SPREAD_DISSOLVE - SPREAD_FADE_START)
        timeOpacity == Max(1000 - (timeElapsed * 1000) \div FADE_DURATION, 0)
    IN  Min(spreadOpacity, timeOpacity)

(* variant of dissolveConstellation that leaves the claims in the table *)
dissolveKeepingClaims(w, lc) ==
    [lc |-> [lc EXCEPT !.state = Dissolved],
     w |-> [w EXCEPT
              !.scene = @ \ {lc.id},
              !.geo = [@ EXCEPT ![lc.id + 1] = @ + 1],
              !.dis = [@ EXCEPT ![lc.id + 1] = @ + 1]]]

(* variant of dissolveConstellation that clears the whole claims table *)
dissolveClearingTable(w, lc) ==
    [lc |-> [lc EXCEPT !.state = Dissolved],
     w |-> [w EXCEPT
              !.used = {},
              !.scene = @ \ {lc.id},
              !.geo = [@ EXCEPT ![lc.id + 1] = @ + 1],
              !.dis = [@ EXCEPT ![lc.id + 1] = @ + 1]]]

(* variant of dissolveConstellation that leaves the lines in the scene *)
dissolveKeepingLines(w, lc) ==
    [lc |-> [lc EXCEPT !.state = Dissolved],
     w |-> [w EXCEPT
              !.used = @ \ SeqRange(lc.particleIndices),
              !.dis = [@ EXCEPT ![lc.id + 1] = @ + 1]]]

(* dissolveConstellation(lc) on the fields w of the running pass: the    *)
(* state is set to Dissolved, every index of lc leaves the claims table, *)
(* the lines leave the scene and their geometry is disposed              *)
dissolveConstellation(w, lc) ==
    [lc |-> [lc EXCEPT !.state = Dissolved],
     w |-> [w EXCEPT
              !.used = @ \ SeqRange(lc.particleIndices),
              !.scene = @ \ {lc.id},
              !.geo = [@ EXCEPT ![lc.id + 1] = @ + 1],
              !.dis = [@ EXCEPT ![lc.id + 1] = @ + 1]]]

(* variant of updateFading that dissolves only below opacity 0 *)
updateFadingBelowZero(w, lc, now) ==
    LET Dissolving(d) == [lc |-> d.lc, w |-> d.w, dissolved |-> TRUE]
        Faded(opacity, faded) ==
            IF opacity < 0
            THEN Dissolving(dissolveConstellation(w, faded))
            ELSE [lc |-> faded, w |-> w, dissolved |-> FALSE]
        Dimmed(spreadRatio, opacity) ==
            Faded(opacity, [lc EXCEPT !.spreadRatio = spreadRatio, !.opacity = opacity])
        Spread(spreadRatio) ==
            Dimmed(spreadRatio, FadingOpacity(spreadRatio, now - lc.fadeStartTime))
    IN  Spread(computeSpread(lc))

(* variant of updateFading that dissolves without reporting it *)
updateFadingReturningFalse(w, lc, now) ==
    LET Dissolving(d) == [lc |-> d.lc, w |-> d.w, dissolved |-> FALSE]
        Faded(opacity, faded) ==
            IF opacity <= 0
            THEN Dissolving(dissolveConstellation(w, faded))
            ELSE [lc |-> faded, w |-> w, dissolved |-> FALSE]
        Dimmed(spreadRatio, opacity) ==
            Faded(opacity, [lc EXCEPT !.spreadRatio = spreadRatio, !.opacity = opacity])
        Spread(spreadRatio) ==
            Dimmed(spreadRatio, FadingOpacity(spreadRatio, now - lc.fadeStartTime))
    IN  Spread(computeSpread(lc))

(* [lc, w, dissolved] after updateFading *)
updateFading(w, lc, now) ==
    LET Dissolving(d) == [lc |-> d.lc, w |-> d.w, dissolved |-> TRUE]
        Faded(opacity, faded) ==
            IF opacity <= 0
            THEN Dissolving(dissolveConstellation(w, faded))
            ELSE [lc |-> faded, w |-> w, dissolved |-> FALSE]
        Dimmed(spreadRatio, opacity) ==
            Faded(opacity, [lc EXCEPT !.spreadRatio = spreadRatio, !.opacity = opacity])
        Spread(spreadRatio) ==
            Dimmed(spreadRatio, FadingOpacity(spreadRatio, now - lc.fadeStartTime))
    IN  Spread(computeSpread(lc))


(* material opacity: opacity x dim factor x strongest running flash *)
LineMaterialOpacity(lc) ==
    LET flashMul(li) ==
            IF lc.lineFlashTimers[li] > 0
            THEN 1000 + ((FLASH_INTENSITY - 1000) * lc.lineFlashTimers[li])
                          \div FLASH_DURATION
            ELSE 1000
        maxFlash == MaxSeq([li \in 1..Len(lc.lineFlashTimers) |-> flashMul(li)])
    IN  (lc.opacity * LineDimFactor * maxFlash) \div 1000000

(* updateLinePositions: the two vertices of every edge, the first on the  *)
(* particle of the edge's first star, the second on the way to the        *)
(* particle of its second star by the edge's progress                     *)
updateLinePositions(lc) ==
    LET lines == TemplateDef(lc.patternIndex).lines
        Vertices(from, to, progress) ==
            << from,
               << from[1] + ((to[1] - from[1]) * progress) \div 1000,
                  from[2] + ((to[2] - from[2]) * progress) \div 1000 >> >>
    IN  [li \in 1..Len(lines) |->
            Vertices(particlePositions[lc.particleIndices[lines[li][1]]],
                     particlePositions[lc.particleIndices[lines[li][2]]],
                     lc.lineProgress[li])]

RECURSIVE RaiseBoost(_, _, _, _)
RaiseBoost(boost, indices, boostVal, i) ==
    IF i > Len(indices) THEN boost
    ELSE RaiseBoost([boost EXCEPT ![indices[i]] = Max(@, boostVal)],
                    indices, boostVal, i + 1)

(* the values assigned to lc.state by one pass, without repetitions *)
Transitions(states) ==
    SelectSeq([k \in 1..(Len(states) - 1) |->
                  IF states[k + 1] = states[k] THEN -1 ELSE states[k + 1]],
              LAMBDA v : v /= -1)

(* one iteration of the loop of updateConstellations, for the constellation *)
(* lc (not Dissolved when the iteration starts); w carries the fields the   *)
(* pass has rewritten so far                                                *)
UpdateStep(w, lc, now, dt) ==
    LET state == lc.state
        (* the splice of a constellation dissolved in this iteration, or the *)
        (* boost, the line positions and the material opacity                *)
        Shown(dissolved, w1, lc1, lc2, lc3) ==
            LET trace == [w1.trace EXCEPT ![lc.id + 1] =
                            @ \o Transitions(<<state, lc1.state, lc2.state, lc3.state>>)]
                boostVal == 1000 + ((STAR_BOOST_MAX - 1000) * lc3.opacity) \div 1000
                shown == [lc3 EXCEPT
                            !.lineVertices = updateLinePositions(lc3),
                            !.lineOpacity = LineMaterialOpacity(lc3),
                            !.lineFlashTimers =
                               [li \in 1..Len(@) |->
                                   IF @[li] > 0 THEN @[li] - dt ELSE @[li]]]
            IN  IF dissolved
                THEN [w1 EXCEPT !.trace = trace]
                ELSE [w1 EXCEPT
                        !.trace = trace,
                        !.live = <<shown>> \o @,
                        !.boost = RaiseBoost(@, lc.particleIndices, boostVal, 1)]
        (* the off-screen rule, for any state but Fading *)
        OffScreen(dissolved, w1, lc1, lc2) ==
            Shown(dissolved, w1, lc1, lc2,
                  IF /\ lc2.state /= Fading
                     /\ now - lc2.formStartTime >= MIN_ONSCREEN_LIFETIME
                     /\ ~isConstellationWithinScreenPadding(lc2, DESPAWN_SCREEN_PADDING)
                  THEN [lc2 EXCEPT !.state = Fading, !.fadeStartTime = now]
                  ELSE lc2)
        (* the wrap rule of a constellation still Forming *)
        Wrapped(dissolved, w1, lc1) ==
            OffScreen(dissolved, w1, lc1,
                      IF lc1.state = Forming /\ detectWrap(lc1)
                      THEN [lc1 EXCEPT !.state = Fading, !.fadeStartTime = now]
                      ELSE lc1)
        Ran(ran) == Wrapped(ran.dissolved, ran.w, ran.lc)
        Repelled(r) == [lc |-> r.lc, w |-> [w EXCEPT !.vel = r.vel],
                        dissolved |-> FALSE]
    IN  Ran(IF state = Forming
              THEN [lc |-> updateForming(lc, now), w |-> w, dissolved |-> FALSE]
            ELSE IF state = Active
              THEN Repelled(updateActive(lc, w.vel, now))
            ELSE updateFading(w, lc, now))

(* the loop of updateConstellations, from the last constellation to the first *)
RECURSIVE UpdateLoop(_, _, _, _, _)
UpdateLoop(w, live, ci, now, dt) ==
    IF ci < 1 THEN w
    ELSE IF live[ci].state = Dissolved
         THEN UpdateLoop(w, live, ci - 1, now, dt)
         ELSE UpdateLoop(UpdateStep(w, live[ci], now, dt), live, ci - 1, now, dt)

(* variant of updateConstellations without the reset of particleBoost *)
updateConstellationsKeepingBoost(live, used, scene, geo, dis, trace, now, dt) ==
    UpdateLoop([live |-> <<>>,
                vel |-> particleVelocities,
                boost |-> particleBoost,
                used |-> used, scene |-> scene, geo |-> geo, dis |-> dis,
                trace |-> trace],
               live, Len(live), now, dt)

(* updateConstellations(dt) on the list live, after the search of the frame *)
updateConstellations(live, used, scene, geo, dis, trace, now, dt) ==
    UpdateLoop([live |-> <<>>,
                vel |-> particleVelocities,
                boost |-> [i \in Particles |-> 1000],
                used |-> used, scene |-> scene, geo |-> geo, dis |-> dis,
                trace |-> trace],
               live, Len(live), now, dt)

(* position += velocity, then the wrap at the world bound, per axis *)
WrapAxis(c) ==
    IF c > WorldBound THEN -WorldBound
    ELSE IF c < -WorldBound THEN WorldBound
    ELSE c

Integrate(vel) ==
    [i \in Particles |->
        <<WrapAxis(particlePositions[i][1] + vel[i][1]),
          WrapAxis(particlePositions[i][2] + vel[i][2])>>]


(* ---------------- initial particle layouts ---------------- *)
(* A layout is a sequence of clusters; a cluster places one particle on   *)
(* each point of template p, rotated by angle step ai, scaled, centred on *)
(* (cx, cy), all drifting with velocity v.  Particles beyond the clusters *)
(* drift alone above the indexed part of the screen.                      *)
PlacedStar(c, k) ==
    LET cosT == CosTable[c.ai + 1]
        sinT == SinTable[c.ai + 1]
        Placed(st) ==
            << c.cx + (((st[1] * cosT - st[2] * sinT) \div 1000) * c.scale) \div 1000,
               c.cy + (((st[1] * sinT + st[2] * cosT) \div 1000) * c.scale) \div 1000 >>
    IN  Placed(CenteredStars(c.p)[k])

RECURSIVE InitialParticle(_, _, _)
InitialParticle(clusters, i, loner) ==
    LET InCluster(c, starCount) ==
            IF i <= starCount
            THEN [pos |-> PlacedStar(c, i), vel |-> c.v]
            ELSE InitialParticle(Tail(clusters), i - starCount, loner + 1)
    IN  IF clusters = <<>>
        THEN [pos |-> <<-560000 + 45000 * ((loner + i - 1) % 24), 560000>>,
              vel |-> <<30, 0>>]
        ELSE InCluster(Head(clusters), StarCount(Head(clusters).p))

Layouts == <<
   (* a wide Gemini, a Cassiopeia, a Lyra drifting towards the world bound, *)
   (* and a small Lyra                                                      *)
   << [p |-> 7, cx |-> 58000, cy |-> 30000, scale |-> 37000, ai |-> 3, v |-> <<30, 0>>],
      [p |-> 3, cx |-> -300000, cy |-> -150000, scale |-> 12000, ai |-> 0, v |-> <<0, 30>>],
      [p |-> 6, cx |-> 540000, cy |-> 200000, scale |-> 20000, ai |-> 0, v |-> <<128, 0>>],
      [p |-> 6, cx |-> -300000, cy |-> 250000, scale |-> 6000, ai |-> 0, v |-> <<30, 0>>] >>,
   (* five particles huddled far closer than any template drawn at the    *)
   (* least scale the matcher tries                                       *)
   << [p |-> 6, cx |-> 52000, cy |-> 30000, scale |-> 1000, ai |-> 0, v |-> <<30, 0>>] >>
>>

(* ---------------- actions ---------------- *)
Init ==
    /\ time = 0
    /\ disposed = FALSE
    /\ isMobile \in BOOLEAN
    /\ aspect = 2000
    /\ \E l \in 1..Len(Layouts) :
         LET Placed(initial) ==
                /\ particlePositions = [i \in Particles |-> initial[i].pos]
                /\ particleVelocities = [i \in Particles |-> initial[i].vel]
         IN  Placed(Computed([i \in Particles |-> InitialParticle(Layouts[l], i, 0)]))
    /\ particleBoost = [i \in Particles |-> 1000]
    /\ liveConstellations = <<>>
    /\ usedParticleSet = {}
    /\ lastClusterSearch = 0
    /\ colorCycleIndex = 0
    /\ patternCooldownUntil = [p \in Patterns |-> 0]
    /\ sceneLines = {}
    /\ geometryDisposals = <<>>
    /\ dissolveCalls = <<>>
    /\ stateTrace = <<>>
    /\ spawnedIndices = <<>>
    /\ lastSearch = "none"
    /\ resizes = 0
    /\ matchTrial = NoTrial
    /\ rafQueue = {0}
    /\ rafId = 0
    /\ contextLost = FALSE

(* the rest of animate after the search: updateConstellations, then the *)
(* particle integration                                                  *)
FinishFrame(now, live, used, scene, geo, dis, trace) ==
    LET Committed(w) ==
            /\ liveConstellations' = w.live
            /\ usedParticleSet' = w.used
            /\ sceneLines' = w.scene
            /\ geometryDisposals' = w.geo
            /\ dissolveCalls' = w.dis
            /\ stateTrace' = w.trace
            /\ particleBoost' = w.boost
            /\ particleVelocities' = w.vel
            /\ particlePositions' = Integrate(w.vel)
    IN  Committed(updateConstellations(live, used, scene, geo, dis, trace, now,
                                       FrameDt))

(* why findCluster returns without a spawn *)
DeclineReason ==
    IF Cardinality(NonDissolved(liveConstellations)) >= maxConstellations THEN "full"
    ELSE IF CandidateBlocks = {} THEN "nocandidates"
    ELSE "nomatch"

(* variant of a declined search that still advances the colour cycle *)
UnspawnedAdvancingColour(searched, outcome) ==
    [lastClusterSearch |-> searched, lastSearch |-> outcome,
     colorCycleIndex |-> colorCycleIndex + 1,
     patternCooldownUntil |-> patternCooldownUntil,
     spawnedIndices |-> spawnedIndices,
     live |-> liveConstellations, used |-> usedParticleSet, scene |-> sceneLines,
     geo |-> geometryDisposals, dis |-> dissolveCalls, trace |-> stateTrace]

(* variant of a declined search that leaves lastClusterSearch alone *)
UnspawnedKeepingSearchTime(searched, outcome) ==
    [lastClusterSearch |-> lastClusterSearch, lastSearch |-> outcome,
     colorCycleIndex |-> colorCycleIndex,
     patternCooldownUntil |-> patternCooldownUntil,
     spawnedIndices |-> spawnedIndices,
     live |-> liveConstellations, used |-> usedParticleSet, scene |-> sceneLines,
     geo |-> geometryDisposals, dis |-> dissolveCalls, trace |-> stateTrace]

(* the fields findCluster may rewrite, as a frame without a spawn leaves *)
(* them; outcome is the new value of lastSearch                          *)
Unspawned(searched, outcome) ==
    [lastClusterSearch |-> searched, lastSearch |-> outcome,
     colorCycleIndex |-> colorCycleIndex,
     patternCooldownUntil |-> patternCooldownUntil,
     spawnedIndices |-> spawnedIndices,
     live |-> liveConstellations, used |-> usedParticleSet, scene |-> sceneLines,
     geo |-> geometryDisposals, dis |-> dissolveCalls, trace |-> stateTrace]

(* variant of Spawned that pushes the constellation already Active and   *)
(* fully opaque                                                          *)
SpawnedActive(sel, now) ==
    [lastClusterSearch |-> now, lastSearch |-> "spawn",
     colorCycleIndex |-> colorCycleIndex + 1,
     patternCooldownUntil |->
        [patternCooldownUntil EXCEPT ![sel.patternIndex] =
            now + PATTERN_COOLDOWN_SECONDS],
     spawnedIndices |-> Append(spawnedIndices, sel.particleIndices),
     live |-> Append(liveConstellations,
                     [NewConstellation(sel, now) EXCEPT !.state = Active,
                                                        !.opacity = 1000]),
     used |-> usedParticleSet \cup SeqRange(sel.particleIndices),
     scene |-> sceneLines \cup {colorCycleIndex},
     geo |-> Append(geometryDisposals, 0),
     dis |-> Append(dissolveCalls, 0),
     trace |-> Append(stateTrace, <<Active>>)]

(* variant of Spawned that starts the cooldown of every template *)
SpawnedCoolingEveryPattern(sel, now) ==
    [lastClusterSearch |-> now, lastSearch |-> "spawn",
     colorCycleIndex |-> colorCycleIndex + 1,
     patternCooldownUntil |-> [p \in Patterns |-> now + PATTERN_COOLDOWN_SECONDS],
     spawnedIndices |-> Append(spawnedIndices, sel.particleIndices),
     live |-> Append(liveConstellations, NewConstellation(sel, now)),
     used |-> usedParticleSet \cup SeqRange(sel.particleIndices),
     scene |-> sceneLines \cup {colorCycleIndex},
     geo |-> Append(geometryDisposals, 0),
     dis |-> Append(dissolveCalls, 0),
     trace |-> Append(stateTrace, <<Forming>>)]

(* the same fields after findCluster spawned the selection sel *)
Spawned(sel, now) ==
    [lastClusterSearch |-> now, lastSearch |-> "spawn",
     colorCycleIndex |-> colorCycleIndex + 1,
     patternCooldownUntil |->
        [patternCooldownUntil EXCEPT ![sel.patternIndex] =
            now + PATTERN_COOLDOWN_SECONDS],
     spawnedIndices |-> Append(spawnedIndices, sel.particleIndices),
     live |-> Append(liveConstellations, NewConstellation(sel, now)),
     used |-> usedParticleSet \cup SeqRange(sel.particleIndices),
     scene |-> sceneLines \cup {colorCycleIndex},
     geo |-> Append(geometryDisposals, 0),
     dis |-> Append(dissolveCalls, 0),
     trace |-> Append(stateTrace, <<Forming>>)]

(* findCluster() at time now: every outcome the shuffles and the weighted *)
(* pick allow                                                             *)
findCluster(now) ==
    LET Outcomes(selections) ==
            IF selections = {} THEN {Unspawned(now, DeclineReason)}
            ELSE {IF Len(sel.particleIndices) /= StarCount(sel.patternIndex)
                  THEN Unspawned(now, "mismatch")
                  ELSE Spawned(sel, now) : sel \in selections}
    IN  Outcomes(findClusterSelections(now))

(* one call of animate(), pending being the callbacks still requested    *)
(* when it starts: it returns at once after dispose(); otherwise it       *)
(* requests the next callback and runs one animation frame                *)
animate(pending) ==
    IF disposed
    THEN /\ rafQueue' = pending
         /\ UNCHANGED <<time, disposed, isMobile, aspect, particlePositions,
                        particleVelocities, particleBoost, liveConstellations,
                        usedParticleSet, lastClusterSearch, colorCycleIndex,
                        patternCooldownUntil, sceneLines, geometryDisposals,
                        dissolveCalls, stateTrace, spawnedIndices, lastSearch,
                        resizes, matchTrial, rafId>>
    ELSE /\ time < MaxTime
         /\ rafId' = rafId + 1
         /\ rafQueue' = pending \cup {rafId + 1}
         /\ time' = time + FrameDt
         /\ \E s \in IF time' - lastClusterSearch >= CLUSTER_SEARCH_INTERVAL
                      THEN findCluster(time')
                      ELSE {Unspawned(lastClusterSearch, lastSearch)} :
               /\ lastClusterSearch' = s.lastClusterSearch
               /\ lastSearch' = s.lastSearch
               /\ colorCycleIndex' = s.colorCycleIndex
               /\ patternCooldownUntil' = s.patternCooldownUntil
               /\ spawnedIndices' = s.spawnedIndices
               /\ FinishFrame(time', s.live, s.used, s.scene, s.geo, s.dis, s.trace)
         /\ UNCHANGED <<disposed, isMobile, aspect, resizes, matchTrial>>

(* the callback that was requested first *)
Oldest(queue) == CHOOSE id \in queue : \A other \in queue : id <= other

(* one animation frame: the browser runs the oldest pending callback. The *)
(* call of animate() that ends the constructor is the callback 0.         *)
Animate ==
    /\ rafQueue /= {}
    /\ animate(rafQueue \ {Oldest(rafQueue)})
    /\ UNCHANGED contextLost

(* variant of Dispose that leaves the lines of Fading constellations alone *)
DisposeSkippingFading ==
    /\ disposed' = TRUE
    /\ LET ids == {liveConstellations[k].id :
                     k \in {j \in NonDissolved(liveConstellations) :
                               liveConstellations[j].state /= Fading}}
       IN  /\ sceneLines' = sceneLines \ ids
           /\ geometryDisposals' =
                [k \in 1..Len(geometryDisposals) |->
                    IF (k - 1) \in ids THEN geometryDisposals[k] + 1
                    ELSE geometryDisposals[k]]
    /\ liveConstellations' = <<>>
    /\ usedParticleSet' = {}
    /\ rafQueue' = rafQueue \ {rafId}
    /\ UNCHANGED <<time, isMobile, aspect, particlePositions, particleVelocities,
                   particleBoost, lastClusterSearch, colorCycleIndex,
                   patternCooldownUntil, dissolveCalls, stateTrace, spawnedIndices,
                   lastSearch, resizes, matchTrial, rafId, contextLost>>

(* variant of Dispose that leaves the claims table as it is *)
DisposeKeepingClaims ==
    /\ disposed' = TRUE
    /\ LET ids == {liveConstellations[k].id : k \in NonDissolved(liveConstellations)}
       IN  /\ sceneLines' = sceneLines \ ids
           /\ geometryDisposals' =
                [k \in 1..Len(geometryDisposals) |->
                    IF (k - 1) \in ids THEN geometryDisposals[k] + 1
                    ELSE geometryDisposals[k]]
    /\ liveConstellations' = <<>>
    /\ rafQueue' = rafQueue \ {rafId}
    /\ UNCHANGED <<time, isMobile, aspect, particlePositions, particleVelocities,
                   particleBoost, lastClusterSearch, colorCycleIndex,
                   patternCooldownUntil, dissolveCalls, stateTrace, spawnedIndices,
                   lastSearch, resizes, matchTrial, rafId, contextLost,
                   usedParticleSet>>

(* dispose(): cancels the latest frame request, detaches and disposes the *)
(* lines of every constellation that is not Dissolved, empties the live   *)
(* list and clears the claims table                                       *)
Dispose ==
    /\ disposed' = TRUE
    /\ LET ids == {liveConstellations[k].id : k \in NonDissolved(liveConstellations)}
       IN  /\ sceneLines' = sceneLines \ ids
           /\ geometryDisposals' =
                [k \in 1..Len(geometryDisposals) |->
                    IF (k - 1) \in ids THEN geometryDisposals[k] + 1
                    ELSE geometryDisposals[k]]
    /\ liveConstellations' = <<>>
    /\ usedParticleSet' = {}
    /\ rafQueue' = rafQueue \ {rafId}
    /\ UNCHANGED <<time, isMobile, aspect, particlePositions, particleVelocities,
                   particleBoost, lastClusterSearch, colorCycleIndex,
                   patternCooldownUntil, dissolveCalls, stateTrace, spawnedIndices,
                   lastSearch, resizes, matchTrial, rafId, contextLost>>

(* onResize: the camera takes the aspect of the resized window *)
AspectChoices == {1000, 2000}

Resize ==
    /\ ~disposed
    /\ resizes < MaxResizes
    /\ (time \div FrameDt) % ResizeStride = 0
    /\ \E a \in AspectChoices \ {aspect} : aspect' = a
    /\ resizes' = resizes + 1
    /\ UNCHANGED <<time, disposed, isMobile, particlePositions, particleVelocities,
                   particleBoost, liveConstellations, usedParticleSet,
                   lastClusterSearch, colorCycleIndex, patternCooldownUntil,
                   sceneLines, geometryDisposals, dissolveCalls, stateTrace,
                   spawnedIndices, lastSearch, matchTrial, rafQueue, rafId,
                   contextLost>>

Next == Animate \/ Dispose \/ Resize

Spec == Init /\ [][Next]_vars

(* ---------------- the canvas losing and regaining its WebGL context ---- *)
(* variant of ContextLost that leaves the pending callback requested *)
ContextLostNotCancelling ==
    /\ ~contextLost
    /\ rafId > 0
    /\ contextLost' = TRUE
    /\ UNCHANGED <<time, disposed, isMobile, aspect, particlePositions,
                   particleVelocities, particleBoost, liveConstellations,
                   usedParticleSet, lastClusterSearch, colorCycleIndex,
                   patternCooldownUntil, sceneLines, geometryDisposals,
                   dissolveCalls, stateTrace, spawnedIndices, lastSearch,
                   resizes, matchTrial, rafId, rafQueue>>

(* webglcontextlost, raised by the canvas once the constructor has        *)
(* returned: onContextLost cancels the latest frame request, unless       *)
(* dispose() has removed the listener                                     *)
ContextLost ==
    /\ ~contextLost
    /\ rafId > 0
    /\ contextLost' = TRUE
    /\ rafQueue' = IF disposed THEN rafQueue ELSE rafQueue \ {rafId}
    /\ UNCHANGED <<time, disposed, isMobile, aspect, particlePositions,
                   particleVelocities, particleBoost, liveConstellations,
                   usedParticleSet, lastClusterSearch, colorCycleIndex,
                   patternCooldownUntil, sceneLines, geometryDisposals,
                   dissolveCalls, stateTrace, spawnedIndices, lastSearch,
                   resizes, matchTrial, rafId>>

(* webglcontextrestored, which follows a webglcontextlost:                *)
(* onContextRestored calls animate(), unless dispose() has removed the    *)
(* listener                                                               *)
ContextRestored ==
    /\ contextLost
    /\ contextLost' = FALSE
    /\ IF disposed
       THEN UNCHANGED <<time, disposed, isMobile, aspect, particlePositions,
                        particleVelocities, particleBoost, liveConstellations,
                        usedParticleSet, lastClusterSearch, colorCycleIndex,
                        patternCooldownUntil, sceneLines, geometryDisposals,
                        dissolveCalls, stateTrace, spawnedIndices, lastSearch,
                        resizes, matchTrial, rafId, rafQueue>>
       ELSE animate(rafQueue)

NextEvents == Animate \/ Dispose \/ Resize \/ ContextLost \/ ContextRestored

SpecEvents == Init /\ [][NextEvents]_vars

(* ---------------- the forming timeline of a three-edge template -------- *)
(* The state at the end of the frame that spawned one constellation of    *)
(* THREE_EDGE_DEF at time 0 in the middle of the screen: its first        *)
(* updateForming ran with elapsed = 0 and its particles moved one step    *)
(* away from their anchors.  Every other particle drifts above the        *)
(* indexed part of the screen.                                            *)
FormingScales == {12000, 20000}
FormingVelocities == {<<30, 0>>, <<0, -30>>, <<-92, 92>>}

(* that state, for a cluster centred on (cx, 0) with cx from centres, a  *)
(* scale from scales and a velocity from velocities                      *)
FormingStart(centres, scales, velocities) ==
    /\ time = 0
    /\ disposed = FALSE
    /\ isMobile \in BOOLEAN
    /\ aspect = 2000
    /\ \E cx \in centres, sc \in scales, v \in velocities :
         LET cluster == <<[p |-> ThreeEdgePattern, cx |-> cx, cy |-> 0,
                          scale |-> sc, ai |-> 0, v |-> v]>>
             Placed(initial) ==
                /\ particlePositions = [i \in Particles |-> initial[i].pos]
                /\ particleVelocities = [i \in Particles |-> initial[i].vel]
         IN  Placed(Computed([i \in Particles |-> InitialParticle(cluster, i, 0)]))
    /\ particleBoost = [i \in Particles |-> 1000]
    /\ colorCycleIndex = 1
    /\ LET Holding(chosen) ==
              /\ liveConstellations =
                   << [NewConstellation([patternIndex |-> ThreeEdgePattern,
                                         particleIndices |-> chosen], 0)
                       EXCEPT
                         !.id = 0,
                         !.anchorPositions =
                            [i \in 1..Len(chosen) |->
                               <<particlePositions[i][1] - particleVelocities[i][1],
                                 particlePositions[i][2] - particleVelocities[i][2]>>],
                         !.lineVertices =
                            [li \in 1..Len(@) |->
                               << <<particlePositions[THREE_EDGE_DEF.lines[li][1]][1]
                                      - particleVelocities[THREE_EDGE_DEF.lines[li][1]][1],
                                    particlePositions[THREE_EDGE_DEF.lines[li][1]][2]
                                      - particleVelocities[THREE_EDGE_DEF.lines[li][1]][2]>>,
                                  <<particlePositions[THREE_EDGE_DEF.lines[li][1]][1]
                                      - particleVelocities[THREE_EDGE_DEF.lines[li][1]][1],
                                    particlePositions[THREE_EDGE_DEF.lines[li][1]][2]
                                      - particleVelocities[THREE_EDGE_DEF.lines[li][1]][2]>> >>]] >>
              /\ usedParticleSet = SeqRange(chosen)
              /\ spawnedIndices = <<chosen>>
       IN  Holding(Computed([i \in 1..StarCount(ThreeEdgePattern) |-> i]))
    /\ lastClusterSearch = 0
    /\ patternCooldownUntil = [p \in Patterns |-> 0]
    /\ sceneLines = {0}
    /\ geometryDisposals = <<0>>
    /\ dissolveCalls = <<0>>
    /\ stateTrace = <<<<Forming>>>>
    /\ lastSearch = "spawn"
    /\ resizes = 0
    /\ matchTrial = NoTrial
    /\ rafQueue = {0}
    /\ rafId = 0
    /\ contextLost = FALSE

InitForming == FormingStart({0}, FormingScales, FormingVelocities)

SpecForming == InitForming /\ [][Next]_vars

(* the browser's side of a frame: animate re-arms requestAnimationFrame  *)
(* at every call until dispose(), so a frame is pending - and the clock  *)
(* will advance by one frame - exactly when Animate is enabled           *)
FramePending ==
    /\ ~disposed
    /\ time < MaxTime
    /\ time' = time + FrameDt

(* the same with frames that keep firing: under [Next]_vars a            *)
(* FramePending step is an Animate step, and both are enabled together   *)
SpecFormingLive == InitForming /\ [][Next]_vars /\ WF_time(FramePending)


(* ---------------- forming next to the world bound and the screen edge -- *)
(* The same constellation drifting to the right at 0.128 per frame, its   *)
(* rightmost star 18 to the right of the centre: from the first centre    *)
(* the star passes the bound at 600 in the integration of the frame at    *)
(* 1.6 s, the last frame that leaves the constellation Forming; from the  *)
(* second it passes the bound while the edges are still being drawn.      *)
WrapCentres == {569300, 575000}

(* Or the same template drawn 240 wide with its rightmost star at 598:    *)
(* that star alone passes the bound, 1.2 s before the next one, and the   *)
(* mean displacement stays below 1.5 times the size of the figure.        *)
(* Or, drifting slowly, 60 wide: around 500 its rightmost star alone, and  *)
(* around 560 every star, is beyond the despawn padding of a window that  *)
(* was resized to a square.                                               *)
InitWrap ==
    \/ FormingStart(WrapCentres, {12000}, {<<128, 0>>})
    \/ FormingStart({478000}, {80000}, {<<128, 0>>})
    \/ FormingStart({500000, 560000}, {20000}, {<<30, 0>>})

SpecWrap == InitWrap /\ [][Next]_vars


(* ---------------- the matcher on a block set out from a template ------- *)
(* The particles 1..StarCount(p) stand exactly on the points of template  *)
(* p, rotated by ai steps of 30 degrees, scaled and centred (point i      *)
(* under particle i), and do not move; they are the whole block.          *)
MatcherScales == {1000, 12000, 20000, 37000}
MatcherCentres == {<<0, 0>>, <<-300000, 150000>>}

InitMatcher ==
    /\ time = 0
    /\ disposed = FALSE
    /\ isMobile = FALSE
    /\ aspect = 2000
    /\ \E p \in Patterns, ai \in 0..(MATCH_ANGLE_STEPS - 1),
          sc \in MatcherScales, c \in MatcherCentres :
         LET cluster == <<[p |-> p, cx |-> c[1], cy |-> c[2],
                          scale |-> sc, ai |-> ai, v |-> <<0, 0>>]>>
             Placed(initial) ==
                /\ particlePositions = [i \in Particles |-> initial[i].pos]
                /\ particleVelocities = [i \in Particles |-> initial[i].vel]
         IN  /\ Placed(Computed([i \in Particles |-> InitialParticle(cluster, i, 0)]))
             /\ matchTrial = [patternIndex |-> p, ai |-> ai, scale |-> sc,
                              done |-> FALSE, result |-> NoMatch]
    /\ particleBoost = [i \in Particles |-> 1000]
    /\ liveConstellations = <<>>
    /\ usedParticleSet = {}
    /\ lastClusterSearch = 0
    /\ colorCycleIndex = 0
    /\ patternCooldownUntil = [p \in Patterns |-> 0]
    /\ sceneLines = {}
    /\ geometryDisposals = <<>>
    /\ dissolveCalls = <<>>
    /\ stateTrace = <<>>
    /\ spawnedIndices = <<>>
    /\ lastSearch = "none"
    /\ resizes = 0
    /\ rafQueue = {0}
    /\ rafId = 0
    /\ contextLost = FALSE

(* the block handed to the matcher: the particles set out, in index order *)
TrialBlock == Computed([i \in 1..StarCount(matchTrial.patternIndex) |-> i])

(* tryMatchPatternToBlock on the block, with the mean position of the    *)
(* block as block centre, as findCluster calls it                        *)
MatchBlock ==
    /\ matchTrial.patternIndex \in Patterns
    /\ ~matchTrial.done
    /\ LET Tried(block, n) ==
              matchTrial' =
                 [matchTrial EXCEPT
                    !.done = TRUE,
                    !.result = tryMatchPatternToBlock(block, matchTrial.patternIndex,
                       SumSeq([j \in 1..n |-> particlePositions[block[j]][1]]) \div n,
                       SumSeq([j \in 1..n |-> particlePositions[block[j]][2]]) \div n)]
       IN  Tried(TrialBlock, Len(TrialBlock))
    /\ UNCHANGED <<time, disposed, isMobile, aspect, particlePositions,
                   particleVelocities, particleBoost, liveConstellations,
                   usedParticleSet, lastClusterSearch, colorCycleIndex,
                   patternCooldownUntil, sceneLines, geometryDisposals,
                   dissolveCalls, stateTrace, spawnedIndices, lastSearch, resizes,
                   rafQueue, rafId, contextLost>>

NextMatcher == MatchBlock

SpecMatcher == InitMatcher /\ [][NextMatcher]_vars


(* ---------------- properties ---------------- *)
Claimed(lc) == SeqRange(lc.particleIndices)

LiveNow == NonDissolved(liveConstellations)

(* the constellations (by position in the histories) that were dissolved *)
DissolvedIds == {k \in 1..Len(dissolveCalls) : dissolveCalls[k] > 0}

(* C1: any two distinct constellations of the live list that are not *)
(* Dissolved have no particle index in common                        *)
C1_DisjointParticleLists ==
    \A a \in LiveNow : \A b \in LiveNow :
        a /= b =>
          Claimed(liveConstellations[a]) \cap Claimed(liveConstellations[b]) = {}

(* two constellations are live, one of them on particles that a dissolved *)
(* constellation held before                                              *)
C1_Witness ==
    /\ Cardinality(LiveNow) >= 2
    /\ \E k \in DissolvedIds : \E a \in LiveNow :
         /\ liveConstellations[a].id /= k - 1
         /\ Claimed(liveConstellations[a]) \cap SeqRange(spawnedIndices[k]) /= {}

(* C2: the number of constellations of the live list that are not *)
(* Dissolved is at most maxConstellations (2 on mobile, 4 otherwise) *)
C2_AtMostMaxConstellations ==
    /\ maxConstellations = (IF isMobile THEN 2 ELSE 4)
    /\ Cardinality(LiveNow) <= maxConstellations

(* a search tick came while maxConstellations constellations were live *)
C2_Witness ==
    /\ lastSearch = "full"
    /\ time = lastClusterSearch
    /\ Cardinality(LiveNow) = maxConstellations

(* C3: at every frame boundary the claims table is exactly the union of *)
(* the particle lists of the live constellations that are not Dissolved *)
C3_ClaimsAreTheLiveLists ==
    usedParticleSet =
        UNION {Claimed(liveConstellations[k]) : k \in LiveNow}

(* the end of a frame whose search tick spawned a constellation next to *)
(* a live one, after another had been dissolved                        *)
C3_Witness ==
    /\ DissolvedIds /= {}
    /\ Cardinality(LiveNow) >= 2
    /\ lastSearch = "spawn"
    /\ time = lastClusterSearch
    /\ usedParticleSet /= {}

(* C4: dissolveConstellation runs at most once per constellation; in the *)
(* step in which it runs every index of that constellation leaves the    *)
(* claims table and every constellation that stays live keeps all of its *)
(* indices claimed                                                       *)
C4_ReleasedExactlyOnce ==
    [][\A k \in 1..Len(dissolveCalls) :
         /\ dissolveCalls'[k] <= 1
         /\ dissolveCalls'[k] /= dissolveCalls[k] =>
              /\ SeqRange(spawnedIndices[k]) \cap usedParticleSet' = {}
              /\ \A j \in 1..Len(liveConstellations') :
                    Claimed(liveConstellations'[j]) \subseteq usedParticleSet']_vars

(* a constellation has been dissolved while another one is live *)
C4_Witness ==
    /\ ~disposed
    /\ \E k \in DissolvedIds :
         /\ dissolveCalls[k] = 1
         /\ SeqRange(spawnedIndices[k]) \cap usedParticleSet = {}
    /\ \E a \in LiveNow : liveConstellations[a].state \in {Active, Fading}

(* C5: the values assigned to the state field of a constellation only  *)
(* move forward in Forming, Active, Fading, Dissolved; nothing follows *)
(* Dissolved                                                           *)
C5_StateOnlyMovesForward ==
    \A k \in 1..Len(stateTrace) :
        \A i \in 1..(Len(stateTrace[k]) - 1) :
            stateTrace[k][i] < stateTrace[k][i + 1]

(* C6: the opacity of every live constellation is within [0, 1] *)
C6_OpacityInUnitInterval ==
    \A k \in 1..Len(liveConstellations) :
        /\ liveConstellations[k].opacity >= 0
        /\ liveConstellations[k].opacity <= 1000

(* a constellation that went from Forming straight to Fading is partly *)
(* faded                                                               *)
C6_Witness ==
    \E k \in 1..Len(liveConstellations) :
        /\ liveConstellations[k].state = Fading
        /\ stateTrace[liveConstellations[k].id + 1] = <<Forming, Fading>>
        /\ liveConstellations[k].opacity > 0
        /\ liveConstellations[k].opacity < 1000

(* C7: every constellation of the live list has as many particle indices *)
(* as its template has stars, and one anchor position per star           *)
C7_OneParticlePerStar ==
    \A k \in 1..Len(liveConstellations) :
        LET lc == liveConstellations[k]
        IN  /\ Len(lc.particleIndices) = Len(TemplateDef(lc.patternIndex).stars)
            /\ Len(lc.anchorPositions) = Len(TemplateDef(lc.patternIndex).stars)

(* constellations of templates with different star counts are live, one *)
(* of them past its forming                                             *)
C7_Witness ==
    \E a \in LiveNow : \E b \in LiveNow :
        /\ StarCount(liveConstellations[a].patternIndex)
             > StarCount(liveConstellations[b].patternIndex)
        /\ liveConstellations[a].state /= Forming
        /\ liveConstellations[b].state /= Forming

(* C8: once dispose has run, the lines of every constellation spawned so *)
(* far are out of the scene and their geometry has been disposed exactly *)
(* once, the live list is empty and the claims table is empty            *)
C8_DisposeReleasesEverything ==
    /\ \A k \in 1..Len(geometryDisposals) : geometryDisposals[k] <= 1
    /\ disposed =>
         /\ liveConstellations = <<>>
         /\ usedParticleSet = {}
         /\ sceneLines = {}
         /\ \A k \in 1..Len(geometryDisposals) : geometryDisposals[k] = 1

(* dispose ran with a Forming and a Fading constellation in the live list, *)
(* after another constellation had been dissolved                          *)
C8_Witness ==
    /\ disposed
    /\ DissolvedIds /= {}
    /\ \E a \in 1..Len(stateTrace) : \E b \in 1..Len(stateTrace) :
         /\ dissolveCalls[a] = 0
         /\ dissolveCalls[b] = 0
         /\ stateTrace[a][Len(stateTrace[a])] = Fading
         /\ stateTrace[b][Len(stateTrace[b])] = Forming

(* C9: the lines of a constellation are attached to the scene exactly   *)
(* while the constellation is in the live list with all of its indices  *)
(* in the claims table; a constellation never holds claims without      *)
(* lines, lines without claims, or only a part of its claims            *)
C9_LinesAttachedIffClaimed ==
    \A k \in 1..Len(spawnedIndices) :
        LET holders == {j \in 1..Len(liveConstellations) :
                          liveConstellations[j].id = k - 1}
        IN  /\ ((k - 1) \in sceneLines) <=>
                 (\E j \in holders :
                     Claimed(liveConstellations[j]) \subseteq usedParticleSet)
            /\ \A j \in holders :
                 \/ Claimed(liveConstellations[j]) \subseteq usedParticleSet
                 \/ Claimed(liveConstellations[j]) \cap usedParticleSet = {}
            /\ holders = {} => ((k - 1) \notin sceneLines)

(* a dissolved constellation has neither lines nor claims while a later *)
(* one, attached and claimed, holds some of the same particles          *)
C9_Witness ==
    \E k \in DissolvedIds : \E a \in LiveNow :
        /\ (k - 1) \notin sceneLines
        /\ liveConstellations[a].id \in sceneLines
        /\ Claimed(liveConstellations[a]) \cap SeqRange(spawnedIndices[k]) /= {}

(* the live constellations of the three-edge template *)
ThreeEdgeLive ==
    {k \in 1..Len(liveConstellations) :
        liveConstellations[k].patternIndex = ThreeEdgePattern}

(* the start and the end of the drawing of the last of three edges, and *)
(* the end of its flash, counted from formStartTime                     *)
LastEdgeStart == (LineCount(ThreeEdgePattern) - 1) * LINE_STAGGER
LastEdgeDrawn == LastEdgeStart + LINE_DRAW_DURATION
LastFlashEnd == LastEdgeDrawn + FLASH_DURATION

(* C10: for a three-edge template that stays on screen and does not wrap, *)
(* the last edge has progress 0 before 0.8 s and is drawing after it, has *)
(* progress 1 from the first frame at or after 1.3 s, and its flash timer *)
(* is positive from that frame until the frame before 1.6 s; the state is *)
(* Forming at every frame up to and including the one at 1.6 s and is     *)
(* Active at the next frame, 1.616 s after formation                      *)
C10_ThreeEdgeTimeline ==
    \A k \in ThreeEdgeLive :
        LET lc == liveConstellations[k]
            elapsed == time - lc.formStartTime
            last == LineCount(ThreeEdgePattern)
        IN  /\ elapsed < LastEdgeStart => lc.lineProgress[last] = 0
            /\ elapsed > LastEdgeStart => lc.lineProgress[last] > 0
            /\ (lc.lineProgress[last] >= 1000) <=> (elapsed >= LastEdgeDrawn)
            /\ (lc.lineFlashTimers[last] > 0) <=>
                  (elapsed >= LastEdgeDrawn /\ elapsed < LastFlashEnd)
            /\ elapsed <= LastFlashEnd => lc.state = Forming
            /\ (elapsed > LastFlashEnd /\ elapsed <= LastFlashEnd + FrameDt) =>
                  lc.state = Active

(* the three-edge constellation at the first frame after 1.6 s, Active *)
C10_Witness ==
    \E k \in ThreeEdgeLive :
        /\ time - liveConstellations[k].formStartTime = LastFlashEnd + FrameDt
        /\ LastFlashEnd = 1600
        /\ liveConstellations[k].state = Active
        /\ liveConstellations[k].lineProgress = <<1000, 1000, 1000>>

(* C10 as worded: the state is Active at the frame 1.6 s after formation *)
C10_ActiveExactlyAtFlashEnd ==
    \A k \in ThreeEdgeLive :
        (time - liveConstellations[k].formStartTime = LastFlashEnd) =>
            liveConstellations[k].state = Active

(* C11: the first vertex of every edge of a live constellation lies on the *)
(* position at which the particle of the edge's first star is rendered in  *)
(* the same frame                                                          *)
C11_GeometryFromRenderedPositions ==
    ~disposed =>
      \A k \in LiveNow :
         LET lc == liveConstellations[k]
             lines == TemplateDef(lc.patternIndex).lines
         IN  \A li \in 1..Len(lines) :
                lc.lineVertices[li][1] = particlePositions[lc.particleIndices[lines[li][1]]]

(* C12: with frames that keep firing, a spawned constellation is        *)
(* eventually dissolved (or disposed of), off the live list, and none of *)
(* its particles is claimed                                              *)
C12_EverySpawnDissolves ==
    (liveConstellations /= <<>>) ~>
        (/\ liveConstellations = <<>>
         /\ usedParticleSet = {}
         /\ sceneLines = {}
         /\ disposed \/ dissolveCalls = <<1>>)

(* the constellation went through Forming, Active, Fading and Dissolved *)
(* and left the list and the claims table                               *)
C12_Witness ==
    /\ ~disposed
    /\ stateTrace = << <<Forming, Active, Fading, Dissolved>> >>
    /\ dissolveCalls = <<1>>
    /\ liveConstellations = <<>>
    /\ usedParticleSet = {}

(* C13: a search tick that does not spawn (capacity full, no candidate   *)
(* block, or no match under the quality threshold) returns an outcome    *)
(* that leaves the claims table, the live list, the cooldown table and   *)
(* the colour-cycle index as they were; over the whole frame the colour  *)
(* index and the cooldowns stay, nothing joins the live list and no      *)
(* particle is newly claimed                                             *)
C13_DecliningTickChangesNothing ==
    [][(/\ time' = time + FrameDt
        /\ time' - lastClusterSearch >= CLUSTER_SEARCH_INTERVAL) =>
          /\ findCluster(time') /= {}
          /\ \A s \in findCluster(time') :
                s.lastSearch /= "spawn" =>
                   /\ s.used = usedParticleSet
                   /\ s.live = liveConstellations
                   /\ s.patternCooldownUntil = patternCooldownUntil
                   /\ s.colorCycleIndex = colorCycleIndex
          /\ lastSearch' /= "spawn" =>
                /\ colorCycleIndex' = colorCycleIndex
                /\ patternCooldownUntil' = patternCooldownUntil
                /\ Len(stateTrace') = Len(stateTrace)
                /\ usedParticleSet' \subseteq usedParticleSet]_vars

(* a tick has just declined at capacity, with claims, cooldowns and the  *)
(* colour cycle all in use                                               *)
C13_Witness ==
    /\ ~disposed
    /\ lastClusterSearch = time
    /\ lastSearch = "full"
    /\ usedParticleSet /= {}
    /\ colorCycleIndex > 0
    /\ \E p \in Patterns : patternCooldownUntil[p] > time

(* C14: a search tick appends at most one constellation to the live      *)
(* list and leaves the earlier entries alone; the appended one is        *)
(* Forming with opacity 0; nothing is appended when the non-Dissolved    *)
(* constellations already number maxConstellations                       *)
C14_OneFormingSpawnPerTick ==
    [][(/\ time' = time + FrameDt
        /\ time' - lastClusterSearch >= CLUSTER_SEARCH_INTERVAL) =>
          /\ \A s \in findCluster(time') :
                LET before == Len(liveConstellations)
                    after == Len(s.live)
                IN  /\ after \in {before, before + 1}
                    /\ SubSeq(s.live, 1, before) = liveConstellations
                    /\ after = before + 1 =>
                          /\ s.live[after].state = Forming
                          /\ s.live[after].opacity = 0
                          /\ Cardinality({k \in 1..before :
                                 liveConstellations[k].state /= Dissolved})
                               < maxConstellations
          /\ Len(stateTrace') \in {Len(stateTrace), Len(stateTrace) + 1}
          /\ Len(stateTrace') = Len(stateTrace) + 1 =>
                stateTrace'[Len(stateTrace')][1] = Forming]_vars

(* a tick has just appended a second constellation, which is Forming     *)
C14_Witness ==
    /\ ~disposed
    /\ lastClusterSearch = time
    /\ lastSearch = "spawn"
    /\ Len(liveConstellations) = 2
    /\ liveConstellations[2].state = Forming
    /\ liveConstellations[2].formStartTime = time

(* C15: after each frame's lifecycle update the boost of a particle that *)
(* no constellation on the live list claims is exactly 1, the boost of a *)
(* claimed particle is 1 + (STAR_BOOST_MAX - 1) x the opacity of its     *)
(* constellation, and every boost lies in [1, STAR_BOOST_MAX]            *)
C15_BoostResetThenRaised ==
    ~disposed =>
        \A i \in Particles :
            /\ particleBoost[i] \in 1000..STAR_BOOST_MAX
            /\ (\A k \in 1..Len(liveConstellations) :
                    i \notin SeqRange(liveConstellations[k].particleIndices))
                  => particleBoost[i] = 1000
            /\ \A k \in 1..Len(liveConstellations) :
                    i \in SeqRange(liveConstellations[k].particleIndices) =>
                       particleBoost[i] * 1000 - 1000000 \in
                          LET exact == (STAR_BOOST_MAX - 1000) *
                                       liveConstellations[k].opacity
                          IN  (exact - 999)..exact

(* a fully opaque constellation holds its particles at STAR_BOOST_MAX    *)
(* and the particles of a dissolved one are back at 1                    *)
C15_Witness ==
    /\ ~disposed
    /\ \E k \in 1..Len(liveConstellations) :
          /\ liveConstellations[k].opacity = 1000
          /\ particleBoost[liveConstellations[k].particleIndices[1]] = STAR_BOOST_MAX
    /\ \E j \in 1..Len(spawnedIndices) :
          /\ SeqRange(spawnedIndices[j]) \cap usedParticleSet = {}
          /\ \A i \in SeqRange(spawnedIndices[j]) : particleBoost[i] = 1000

(* the live constellation with identifier id *)
WithId(id) ==
    liveConstellations[CHOOSE k \in 1..Len(liveConstellations) :
                          liveConstellations[k].id = id]

(* the constellation id is live and each of its particles has moved by   *)
(* its present velocity once per frame since the anchors were taken,     *)
(* with no wrap at the world bound                                       *)
DriftingFreely(id) ==
    /\ \E k \in LiveNow : liveConstellations[k].id = id
    /\ LET Drifted(lc, frames) ==
              \A i \in 1..Len(lc.particleIndices) :
                 particlePositions[lc.particleIndices[i]] =
                    << lc.anchorPositions[i][1]
                          + frames * particleVelocities[lc.particleIndices[i]][1],
                       lc.anchorPositions[i][2]
                          + frames * particleVelocities[lc.particleIndices[i]][2] >>
           Since(lc) == Drifted(lc, (time - lc.formStartTime) \div FrameDt + 1)
       IN  Since(WithId(id))

SpreadRatioOf(id) == WithId(id).spreadRatio

(* C16: the constellation a tick pushes has spread ratio exactly 1, as a *)
(* field and as computeSpread measures it on its anchors; the field and  *)
(* the measure are never below 1; and from a frame to the next the       *)
(* spread ratio of a constellation whose particles drift freely does not *)
(* decrease                                                              *)
C16_SpreadRatioFromOneUpwards ==
    [][/\ (/\ time' = time + FrameDt
           /\ time' - lastClusterSearch >= CLUSTER_SEARCH_INTERVAL) =>
             \A s \in findCluster(time') :
                 s.lastSearch = "spawn" =>
                    /\ s.live[Len(s.live)].spreadRatio = 1000
                    /\ computeSpread(s.live[Len(s.live)]) = 1000
       /\ \A k \in 1..Len(liveConstellations) :
             /\ liveConstellations[k].spreadRatio >= 1000
             /\ computeSpread(liveConstellations[k]) >= 1000
       /\ \A id \in 0..colorCycleIndex :
             (DriftingFreely(id) /\ DriftingFreely(id)') =>
                 SpreadRatioOf(id)' >= SpreadRatioOf(id)]_vars

(* a constellation that has drifted freely since its formation has a    *)
(* recomputed spread ratio above 1                                       *)
C16_Witness ==
    /\ ~disposed
    /\ \E k \in LiveNow :
          /\ DriftingFreely(liveConstellations[k].id)
          /\ liveConstellations[k].state \in {Active, Fading}
          /\ liveConstellations[k].spreadRatio > 1000

(* the live constellations that updateFading has updated: Fading since   *)
(* an earlier frame                                                      *)
FadingUpdated ==
    {k \in LiveNow : /\ liveConstellations[k].state = Fading
                     /\ liveConstellations[k].fadeStartTime < time}

(* C17: in Fading the opacity is the smaller of the time-based opacity   *)
(* and a spread-based opacity that is 1 up to SPREAD_FADE_START, 0 from  *)
(* SPREAD_DISSOLVE on and linear in between - about 0.857 at a spread    *)
(* ratio of 1.9                                                          *)
C17_FadingOpacityFormula ==
    /\ FadingOpacity(1900, 0) \in 857..858
    /\ ~disposed =>
         \A k \in FadingUpdated :
            LET lc == liveConstellations[k]
                elapsed == time - lc.fadeStartTime
                byTime == IF elapsed >= FADE_DURATION THEN 0
                          ELSE 1000 - (elapsed * 1000) \div FADE_DURATION
                fall == ((lc.spreadRatio - SPREAD_FADE_START) * 1000)
                           \div (SPREAD_DISSOLVE - SPREAD_FADE_START)
            IN  /\ lc.opacity <= byTime
                /\ lc.spreadRatio <= SPREAD_FADE_START => lc.opacity = byTime
                /\ lc.spreadRatio >= SPREAD_DISSOLVE => lc.opacity = 0
                /\ (/\ lc.spreadRatio > SPREAD_FADE_START
                    /\ lc.spreadRatio < SPREAD_DISSOLVE) =>
                       /\ lc.opacity <= 1000 - fall
                       /\ lc.opacity \in {1000 - fall, byTime}

(* a Fading constellation whose spread lies between the two thresholds   *)
(* and whose opacity is the spread-based one, below the time-based one   *)
C17_Witness ==
    /\ ~disposed
    /\ \E k \in FadingUpdated :
          /\ liveConstellations[k].spreadRatio > SPREAD_FADE_START
          /\ liveConstellations[k].spreadRatio < SPREAD_DISSOLVE
          /\ liveConstellations[k].opacity > 0
          /\ liveConstellations[k].opacity <
                1000 - ((time - liveConstellations[k].fadeStartTime) * 1000)
                          \div FADE_DURATION

(* the constellation id was set to Active in the step *)
BecomesActive(id) ==
    /\ id + 1 <= Len(stateTrace')
    /\ Active \in SeqRange(stateTrace'[id + 1])
    /\ \/ id + 1 > Len(stateTrace)
       \/ Active \notin SeqRange(stateTrace[id + 1])

(* C19: a constellation that is Active after a frame, or that the frame  *)
(* set to Active, has every edge at progress 1 and every flash timer     *)
(* expired (not above 0)                                                 *)
C19_ActiveOnlyWhenDrawnAndFlashed ==
    [][\A k \in 1..Len(liveConstellations') :
          (\/ liveConstellations'[k].state = Active
           \/ BecomesActive(liveConstellations'[k].id)) =>
              /\ \A li \in 1..Len(liveConstellations'[k].lineProgress) :
                    liveConstellations'[k].lineProgress[li] = 1000
              /\ \A li \in 1..Len(liveConstellations'[k].lineFlashTimers) :
                    liveConstellations'[k].lineFlashTimers[li] <= 0]_vars

(* a constellation with several edges went from Forming to Active; its   *)
(* edges were flashed, and the flashes are over                          *)
C19_Witness ==
    /\ ~disposed
    /\ \E k \in LiveNow :
          /\ liveConstellations[k].state = Active
          /\ stateTrace[liveConstellations[k].id + 1] = <<Forming, Active>>
          /\ Len(liveConstellations[k].lineProgress) >= 3
          /\ \A li \in 1..Len(liveConstellations[k].lineFlashTimers) :
                /\ liveConstellations[k].lineProgress[li] = 1000
                /\ liveConstellations[k].lineFlashTimers[li] <= 0
                /\ liveConstellations[k].lineFlashTimers[li] > -FrameDt

(* C20: detectWrap is true exactly when a claimed particle is more than  *)
(* WRAP_DETECT_DIST from its anchor along x or along y, and a            *)
(* constellation that is Forming or Active with a wrap detected when a   *)
(* frame starts is Fading, with fadeStartTime the time of the frame,     *)
(* when the frame ends                                                   *)
C20_WrapFadesInTheSameFrame ==
    [][\A k \in 1..Len(liveConstellations) :
          /\ detectWrap(liveConstellations[k]) <=>
                \E i \in 1..Len(liveConstellations[k].particleIndices) :
                   \E axis \in 1..2 :
                      Abs(particlePositions[liveConstellations[k].particleIndices[i]][axis]
                          - liveConstellations[k].anchorPositions[i][axis])
                        > WRAP_DETECT_DIST
          /\ (/\ time' = time + FrameDt
              /\ liveConstellations[k].state \in {Forming, Active}
              /\ detectWrap(liveConstellations[k])) =>
                \E j \in 1..Len(liveConstellations') :
                   /\ liveConstellations'[j].id = liveConstellations[k].id
                   /\ liveConstellations'[j].state = Fading
                   /\ liveConstellations'[j].fadeStartTime = time']_vars

(* C18: for a block set out exactly on a template, rotated, scaled and   *)
(* moved, the matcher returns a match that gives template point i the    *)
(* particle set out on point i, with a score of about 0 (at most 0.1)    *)
C18_ExactPlacementMatchedExactly ==
    matchTrial.done =>
        /\ matchTrial.result.ok
        /\ matchTrial.result.particleIndices = TrialBlock
        /\ matchTrial.result.score <= 100

(* the positions in the live list, after the step, of the constellation  *)
(* that is at position k before it                                       *)
After(k) ==
    {j \in 1..Len(liveConstellations') :
        liveConstellations'[j].id = liveConstellations[k].id}

(* C21: over a frame an Active constellation stays on the list, Active   *)
(* or Fading; it is Fading (from the time of the frame) when the spread  *)
(* ratio measured in the frame is at least SPREAD_FADE_START, and it is  *)
(* Fading only for that, for a wrap or for having left the screen after  *)
(* the minimum lifetime                                                  *)
C21_ActiveLeavesOnlyToFading ==
    [][time' = time + FrameDt =>
         \A k \in 1..Len(liveConstellations) :
            liveConstellations[k].state = Active =>
               /\ After(k) /= {}
               /\ \A j \in After(k) :
                     /\ liveConstellations'[j].state \in {Active, Fading}
                     /\ computeSpread(liveConstellations[k]) >= SPREAD_FADE_START =>
                           /\ liveConstellations'[j].state = Fading
                           /\ liveConstellations'[j].fadeStartTime = time'
                     /\ liveConstellations'[j].state = Fading =>
                           \/ computeSpread(liveConstellations[k]) >= SPREAD_FADE_START
                           \/ detectWrap(liveConstellations[k])
                           \/ /\ time' - liveConstellations[k].formStartTime
                                    >= MIN_ONSCREEN_LIFETIME
                              /\ ~isConstellationWithinScreenPadding(
                                     liveConstellations[k], DESPAWN_SCREEN_PADDING)]_vars

(* a constellation has just gone from Active to Fading on its spread,    *)
(* with no wrap and still on the screen                                  *)
C21_Witness ==
    /\ ~disposed
    /\ \E k \in LiveNow :
          /\ liveConstellations[k].state = Fading
          /\ liveConstellations[k].fadeStartTime = time
          /\ stateTrace[liveConstellations[k].id + 1] = <<Forming, Active, Fading>>
          /\ liveConstellations[k].spreadRatio >= SPREAD_FADE_START
          /\ ~detectWrap(liveConstellations[k])
          /\ isConstellationWithinScreenPadding(liveConstellations[k],
                                                DESPAWN_SCREEN_PADDING)

(* C22: over a frame a Fading constellation either stays on the list,   *)
(* Fading with the same fadeStartTime and a positive opacity, or is      *)
(* dissolved: off the list, dissolveConstellation called once more, its  *)
(* claims released.  It is dissolved exactly when the frame finds the    *)
(* spread at SPREAD_DISSOLVE or the fade FADE_DURATION old, so never     *)
(* later than the first frame with time - fadeStartTime >= FADE_DURATION *)
C22_FadingEndsByFadeDuration ==
    [][time' = time + FrameDt =>
         \A k \in 1..Len(liveConstellations) :
            liveConstellations[k].state = Fading =>
               /\ \A j \in After(k) :
                     /\ liveConstellations'[j].state = Fading
                     /\ liveConstellations'[j].fadeStartTime
                           = liveConstellations[k].fadeStartTime
                     /\ liveConstellations'[j].opacity > 0
                     /\ time' - liveConstellations[k].fadeStartTime < FADE_DURATION
               /\ After(k) = {} <=>
                     \/ time' - liveConstellations[k].fadeStartTime >= FADE_DURATION
                     \/ computeSpread(liveConstellations[k]) >= SPREAD_DISSOLVE
               /\ After(k) = {} =>
                     /\ dissolveCalls'[liveConstellations[k].id + 1]
                           = dissolveCalls[liveConstellations[k].id + 1] + 1
                     /\ SeqRange(liveConstellations[k].particleIndices)
                           \cap usedParticleSet' = {}
                     /\ liveConstellations[k].id \notin sceneLines']_vars

(* a constellation is in the last frame of its fade: one frame short of  *)
(* FADE_DURATION, fadeStartTime as it was set, still visible             *)
C22_Witness ==
    /\ ~disposed
    /\ \E k \in LiveNow :
          /\ liveConstellations[k].state = Fading
          /\ time - liveConstellations[k].fadeStartTime + FrameDt >= FADE_DURATION
          /\ liveConstellations[k].opacity > 0

(* the constellation lc has no claimed particle within the despawn       *)
(* padding of the screen                                                 *)
FullyOffScreen(lc) ==
    \A i \in 1..Len(lc.particleIndices) :
        ~isParticleWithinScreenPadding(lc.particleIndices[i], DESPAWN_SCREEN_PADDING)

(* C23: over a frame a Forming or Active constellation that is at least  *)
(* MIN_ONSCREEN_LIFETIME old and has no claimed particle within the      *)
(* despawn padding becomes Fading with fadeStartTime the time of the     *)
(* frame; one that is younger, or has a claimed particle within the      *)
(* padding, becomes Fading only for a wrap or for its spread             *)
C23_OffScreenRule ==
    [][time' = time + FrameDt =>
         \A k \in 1..Len(liveConstellations) :
            liveConstellations[k].state \in {Forming, Active} =>
               /\ After(k) /= {}
               /\ \A j \in After(k) :
                     IF /\ time' - liveConstellations[k].formStartTime
                             >= MIN_ONSCREEN_LIFETIME
                        /\ FullyOffScreen(liveConstellations[k])
                     THEN /\ liveConstellations'[j].state = Fading
                          /\ liveConstellations'[j].fadeStartTime = time'
                     ELSE liveConstellations'[j].state = Fading =>
                            \/ detectWrap(liveConstellations[k])
                            \/ /\ liveConstellations[k].state = Active
                               /\ computeSpread(liveConstellations[k])
                                     >= SPREAD_FADE_START]_vars

(* a constellation has just been moved from Forming to Fading with no    *)
(* wrap, every claimed particle off the screen                           *)
C23_Witness ==
    /\ ~disposed
    /\ \E k \in LiveNow :
          /\ liveConstellations[k].state = Fading
          /\ liveConstellations[k].fadeStartTime = time
          /\ stateTrace[liveConstellations[k].id + 1] = <<Forming, Fading>>
          /\ time - liveConstellations[k].formStartTime >= MIN_ONSCREEN_LIFETIME
          /\ FullyOffScreen(liveConstellations[k])
          /\ ~detectWrap(liveConstellations[k])

(* C24: an Active constellation has opacity exactly 1, in the frame it   *)
(* turns Active as in every later frame.                                  *)
C24_ActiveOpacityIsOne ==
    \A k \in 1..Len(liveConstellations) :
       liveConstellations[k].state = Active => liveConstellations[k].opacity = 1000

(* an Active constellation that updateActive has measured at least once *)
C24_Witness ==
    \E k \in 1..Len(liveConstellations) :
       /\ liveConstellations[k].state = Active
       /\ liveConstellations[k].spreadRatio > 1000
       /\ liveConstellations[k].opacity = 1000

(* C25: the flash of an edge is one-shot. In a frame the timer of an edge *)
(* is raised only if the constellation is Forming and the progress of the *)
(* edge reaches 1 in that frame for the first time; it is then            *)
(* FLASH_DURATION less the decrement of the same frame. A complete edge   *)
(* stays complete, so this happens at most once; from then on the timer   *)
(* only runs down, by dt per frame while positive, and no timer ever      *)
(* exceeds FLASH_DURATION.                                                *)
C25_FlashIsOneShot ==
    [][time' = time + FrameDt =>
         /\ \A j \in 1..Len(liveConstellations') :
               \A li \in 1..Len(liveConstellations'[j].lineFlashTimers) :
                  liveConstellations'[j].lineFlashTimers[li] <= FLASH_DURATION
         /\ \A k \in 1..Len(liveConstellations) : \A j \in After(k) :
               \A li \in 1..Len(liveConstellations[k].lineFlashTimers) :
                  /\ liveConstellations'[j].lineFlashTimers[li]
                        > liveConstellations[k].lineFlashTimers[li]
                     => /\ liveConstellations[k].state = Forming
                        /\ liveConstellations[k].lineProgress[li] < 1000
                        /\ liveConstellations'[j].lineProgress[li] = 1000
                        /\ liveConstellations'[j].lineFlashTimers[li]
                              = FLASH_DURATION - FrameDt
                  /\ (/\ liveConstellations[k].state = Forming
                      /\ liveConstellations[k].lineProgress[li] < 1000
                      /\ liveConstellations'[j].lineProgress[li] = 1000)
                     => liveConstellations'[j].lineFlashTimers[li]
                           = FLASH_DURATION - FrameDt
                  /\ liveConstellations[k].lineProgress[li] >= 1000
                     => /\ liveConstellations'[j].lineProgress[li] >= 1000
                        /\ liveConstellations'[j].lineFlashTimers[li]
                              = IF liveConstellations[k].lineFlashTimers[li] > 0
                                THEN liveConstellations[k].lineFlashTimers[li] - FrameDt
                                ELSE liveConstellations[k].lineFlashTimers[li]]_vars

(* a complete edge whose flash, started some frames ago, is running down *)
C25_Witness ==
    \E k \in 1..Len(liveConstellations) :
       \E li \in 1..Len(liveConstellations[k].lineFlashTimers) :
          /\ liveConstellations[k].lineProgress[li] = 1000
          /\ liveConstellations[k].lineFlashTimers[li] > 0
          /\ liveConstellations[k].lineFlashTimers[li] < FLASH_DURATION - FrameDt

(* C26: the cooldown table changes only on a spawn. A step that spawns   *)
(* a constellation of template p at time t sets the entry of p to          *)
(* t + PATTERN_COOLDOWN_SECONDS and leaves the other entries; every other  *)
(* step (a frame without a search, a declined search, the lifecycle        *)
(* update, a dissolution, dispose, a resize) leaves the table as it was.   *)
C26_CooldownSetOnlyBySpawn ==
    [][IF Len(stateTrace') > Len(stateTrace)
       THEN /\ time' = time + FrameDt
            /\ \E j \in 1..Len(liveConstellations') :
                  /\ liveConstellations'[j].id = Len(stateTrace)
                  /\ liveConstellations'[j].formStartTime = time'
                  /\ patternCooldownUntil' =
                        [patternCooldownUntil EXCEPT
                           ![liveConstellations'[j].patternIndex] =
                              time' + PATTERN_COOLDOWN_SECONDS]
       ELSE patternCooldownUntil' = patternCooldownUntil]_vars

(* a spawn has just started one cooldown while the cooldown of another   *)
(* template, started by an earlier spawn, is still running               *)
C26_Witness ==
    /\ lastSearch = "spawn"
    /\ lastClusterSearch = time
    /\ \E p, q \in Patterns :
          /\ patternCooldownUntil[p] = time + PATTERN_COOLDOWN_SECONDS
          /\ patternCooldownUntil[q] > time
          /\ patternCooldownUntil[q] < patternCooldownUntil[p]

(* the step is a frame in which the search is due *)
SearchDue ==
    /\ time' = time + FrameDt
    /\ time' - lastClusterSearch >= CLUSTER_SEARCH_INTERVAL

(* C27: the search runs only in frames where                              *)
(* time - lastClusterSearch >= CLUSTER_SEARCH_INTERVAL, and every such    *)
(* frame resets lastClusterSearch to the time of the frame, spawn or not. *)
(* In any other step lastClusterSearch, the outcome of the last search    *)
(* and the number of spawns stay. So no search has run before the first   *)
(* interval has passed, and the constellations alive together were        *)
(* spawned at least one interval apart.                                   *)
C27_SearchEveryInterval ==
    /\ [](/\ lastClusterSearch <= time
          /\ time < CLUSTER_SEARCH_INTERVAL =>
                /\ lastSearch = "none"
                /\ lastClusterSearch = 0
                /\ Len(stateTrace) = 0
          /\ \A j, k \in 1..Len(liveConstellations) :
                liveConstellations[j].id < liveConstellations[k].id =>
                   liveConstellations[k].formStartTime
                      - liveConstellations[j].formStartTime
                         >= CLUSTER_SEARCH_INTERVAL)
    /\ [][IF SearchDue
          THEN /\ lastClusterSearch' = time'
               /\ lastSearch' /= "none"
          ELSE /\ lastClusterSearch' = lastClusterSearch
               /\ lastSearch' = lastSearch
               /\ Len(stateTrace') = Len(stateTrace)]_vars

(* a search that declined was followed, one interval later and no sooner, *)
(* by the next search                                                     *)
C27_Witness ==
    /\ lastClusterSearch = time
    /\ time >= 2 * CLUSTER_SEARCH_INTERVAL
    /\ time < 2 * (CLUSTER_SEARCH_INTERVAL + FrameDt)
    /\ Len(stateTrace) = 0
    /\ lastSearch \in {"nocandidates", "nomatch"}

(* C28: within a frame the lifecycle update runs first and the search    *)
(* after it, so that a constellation spawned in a frame leaves the frame   *)
(* as the search pushed it, its line geometry still unwritten, and is      *)
(* first advanced by the update of the following frame.                    *)
C28_SpawnedAdvancedFromNextFrame ==
    [][Len(stateTrace') > Len(stateTrace) =>
         \A j \in 1..Len(liveConstellations') :
            liveConstellations'[j].id = Len(stateTrace) =>
               liveConstellations'[j].lineVertices =
                  [li \in 1..LineCount(liveConstellations'[j].patternIndex) |->
                      <<<<0, 0>>, <<0, 0>>>>]]_vars

(* the outcome of every scale x rotation variant that                    *)
(* tryMatchPatternToBlock tries on the block, in the order it tries them;  *)
(* none when the block is smaller than the template                        *)
VariantsOfBlock(particleIndices, p, blockCenterX, blockCenterY) ==
    LET Variants(pool, centeredStars, starOrder, clusterCenterX, clusterCenterY,
                 baseScale) ==
            Computed(
              [v \in 1..(Len(MATCH_SCALE_VARIANTS) * MATCH_ANGLE_STEPS) |->
                MatchVariant(pool, centeredStars, starOrder,
                    clusterCenterX, clusterCenterY,
                    (baseScale * MATCH_SCALE_VARIANTS[((v - 1) \div MATCH_ANGLE_STEPS) + 1])
                        \div 1000,
                    (v - 1) % MATCH_ANGLE_STEPS)])
        clusterSpan(xs, ys) ==
            Max(Max(MaxSeq(xs) - MinSeq(xs), MaxSeq(ys) - MinSeq(ys)),
                (GRID_CELL_SIZE * 8) \div 10)
        radiusKey(centeredStars) ==
            Computed([i \in 1..Len(centeredStars) |->
                  -(centeredStars[i][1] * centeredStars[i][1]
                    + centeredStars[i][2] * centeredStars[i][2])])
        Fit(pool, poolSize, xs, ys, starCount, centeredStars, patternSpan) ==
            Variants(pool, centeredStars,
                     SortByKey(Computed([i \in 1..starCount |-> i]),
                               radiusKey(centeredStars)),
                     SumSeq(xs) \div poolSize, SumSeq(ys) \div poolSize,
                     (clusterSpan(xs, ys) * 1000) \div patternSpan)
        Located(pool, poolSize, starCount, centeredStars, patternSpan) ==
            Fit(pool, poolSize,
                Computed([j \in 1..poolSize |-> particlePositions[pool[j]][1]]),
                Computed([j \in 1..poolSize |-> particlePositions[pool[j]][2]]),
                starCount, centeredStars, patternSpan)
        Sorted(sortedPool, poolSize, starCount, centeredStars, patternSpan) ==
            Located(SubSeq(sortedPool, 1, poolSize), poolSize, starCount,
                    centeredStars, patternSpan)
        centerKey == Computed([i \in Particles |->
                  DistSq(particlePositions[i][1] - blockCenterX,
                         particlePositions[i][2] - blockCenterY)])
        Match(starCount, centeredStars, patternSpan) ==
            IF Len(particleIndices) < starCount THEN <<>>
            ELSE Sorted(SortByKey(particleIndices, centerKey),
                        Min(Len(particleIndices),
                            Max(starCount * MATCH_POOL_MULTIPLIER, starCount + 4)),
                        starCount, centeredStars, patternSpan)
    IN  Match(StarCount(p), CenteredStars(p), PatternSpan(p))

(* what the matcher owes its caller for the block and the template p *)
MatcherContract(particleIndices, p, blockCenterX, blockCenterY) ==
    LET Holds(r, variants) ==
            /\ Len(particleIndices) < StarCount(p) => ~r.ok
            /\ ~r.ok => /\ r = NoMatch
                        /\ \A v \in 1..Len(variants) : ~variants[v].ok
            /\ r.ok =>
                  /\ Len(r.particleIndices) = StarCount(p)
                  /\ \A i, j \in 1..Len(r.particleIndices) :
                        i /= j => r.particleIndices[i] /= r.particleIndices[j]
                  /\ SeqRange(r.particleIndices) \subseteq SeqRange(particleIndices)
                  /\ r.score <= MATCH_QUALITY_THRESHOLD
                  /\ \E v \in 1..Len(variants) : variants[v] = r
                  /\ \A v \in 1..Len(variants) :
                        variants[v].ok => r.score <= variants[v].score
    IN  Holds(tryMatchPatternToBlock(particleIndices, p, blockCenterX, blockCenterY),
              VariantsOfBlock(particleIndices, p, blockCenterX, blockCenterY))

(* C29: for every candidate block of a search and every template the      *)
(* matcher returns either no-match or exactly star-count pairwise distinct *)
(* particles of the block, with a score of at most MATCH_QUALITY_THRESHOLD *)
(* that is the lowest of the accepted scale x rotation variants; it        *)
(* returns no-match when the block has fewer particles than the template   *)
(* has stars.                                                              *)
C29_MatcherContract ==
    [][SearchDue =>
         \A b \in CandidateBlocks : \A p \in Patterns :
            MatcherContract(b.particles, p, b.centerX, b.centerY)]_vars

(* a search is due on a block that one template matches, in variants of  *)
(* different scores, and that is too small for another template          *)
C29_Witness ==
    /\ ~disposed
    /\ time + FrameDt - lastClusterSearch >= CLUSTER_SEARCH_INTERVAL
    /\ \E b \in CandidateBlocks :
          /\ \E p \in Patterns : Len(b.particles) < StarCount(p)
          /\ \E p \in Patterns :
                LET Several(variants) ==
                       \E v, w \in 1..Len(variants) :
                          /\ variants[v].ok
                          /\ variants[w].ok
                          /\ variants[v].score < variants[w].score
                IN  Several(VariantsOfBlock(b.particles, p, b.centerX, b.centerY))

(* C30: at a search tick the spatial index, and so every candidate       *)
(* block, holds only particles that are unclaimed at the tick and project  *)
(* inside the on-screen box widened by the spawn padding. A constellation  *)
(* spawned by the tick therefore takes only particles that were unclaimed  *)
(* and inside the spawn padding when it was spawned, none of them held by  *)
(* a constellation that is live.                                           *)
C30_IndexHoldsFreeOnScreenParticles ==
    [][SearchDue =>
         /\ \A i \in Particles :
               GridKey(i) /= -1 =>
                  /\ i \notin usedParticleSet
                  /\ isParticleWithinScreenPadding(i, SPAWN_SCREEN_PADDING)
         /\ \A b \in CandidateBlocks : \A i \in SeqRange(b.particles) :
               /\ i \notin usedParticleSet
               /\ isParticleWithinScreenPadding(i, SPAWN_SCREEN_PADDING)
         /\ \A j \in 1..Len(liveConstellations') :
               liveConstellations'[j].id = Len(stateTrace) =>
                  /\ Len(stateTrace') = Len(stateTrace) + 1
                  /\ \A i \in Claimed(liveConstellations'[j]) :
                        /\ i \notin usedParticleSet
                        /\ isParticleWithinScreenPadding(i, SPAWN_SCREEN_PADDING)
                        /\ i \in usedParticleSet'
                        /\ \A k \in LiveNow : i \notin Claimed(liveConstellations[k])]_vars

(* a tick has just spawned a constellation next to one that is still     *)
(* live, while a free particle lies outside the spawn padding            *)
C30_Witness ==
    /\ lastSearch = "spawn"
    /\ lastClusterSearch = time
    /\ Cardinality(LiveNow) >= 2
    /\ \E i \in Particles \ usedParticleSet :
          ~isParticleWithinScreenPadding(i, SPAWN_SCREEN_PADDING)

(* the velocity change dv of a particle at offset (dx, dy) from the live *)
(* centroid is a push of magnitude REPULSION_FORCE straight away from it,  *)
(* to the rounding of the components, or nothing within 0.1 of the centre  *)
PushedAway(dv, dx, dy) ==
    IF Hypot(dx, dy) <= RepulsionMinDist THEN dv = <<0, 0>>
    ELSE /\ dv[1] * dv[1] + dv[2] * dv[2] >= (REPULSION_FORCE - 1) * (REPULSION_FORCE - 1)
         /\ dv[1] * dv[1] + dv[2] * dv[2] <= (REPULSION_FORCE + 1) * (REPULSION_FORCE + 1)
         /\ dv[1] * dx + dv[2] * dy > 0
         /\ Abs(dv[1] * dy - dv[2] * dx) <= Abs(dx) + Abs(dy)

(* the mean of the positions of the claimed particles of lc, on axis a *)
LiveCentroid(lc, a) ==
    SumSeq([i \in 1..Len(lc.particleIndices) |->
               particlePositions[lc.particleIndices[i]][a]])
      \div Len(lc.particleIndices)

(* C31: positions change only by the integration step of the frame, which *)
(* adds the velocity of the frame to each position. A frame changes the    *)
(* velocity of a particle only if a constellation that is Active when the  *)
(* update starts claims it, and then by a push of magnitude                *)
(* REPULSION_FORCE away from the centroid of the claimed particles (none   *)
(* within 0.1 of it). The velocities of unclaimed particles and of the     *)
(* particles of Forming and Fading constellations stay, and no step but a  *)
(* frame changes a position or a velocity.                                 *)
C31_OnlyActiveRepulsionTouchesVelocity ==
    [][IF time' = time + FrameDt
       THEN /\ particlePositions' = Integrate(particleVelocities')
            /\ \A i \in Particles :
                  IF \E k \in 1..Len(liveConstellations) :
                        /\ liveConstellations[k].state = Active
                        /\ i \in Claimed(liveConstellations[k])
                  THEN \A k \in 1..Len(liveConstellations) :
                          (/\ liveConstellations[k].state = Active
                           /\ i \in Claimed(liveConstellations[k])) =>
                             PushedAway(
                               <<particleVelocities'[i][1] - particleVelocities[i][1],
                                 particleVelocities'[i][2] - particleVelocities[i][2]>>,
                               particlePositions[i][1]
                                 - LiveCentroid(liveConstellations[k], 1),
                               particlePositions[i][2]
                                 - LiveCentroid(liveConstellations[k], 2))
                  ELSE particleVelocities'[i] = particleVelocities[i]
       ELSE /\ particlePositions' = particlePositions
            /\ particleVelocities' = particleVelocities]_vars

(* the particles of an Active constellation, spawned with one common    *)
(* velocity, have been pushed apart while a free particle drifts as it   *)
(* did at the start                                                      *)
C31_Witness ==
    \E k \in 1..Len(liveConstellations) :
       /\ liveConstellations[k].state = Active
       /\ \E i, j \in Claimed(liveConstellations[k]) :
             particleVelocities[i] /= particleVelocities[j]
       /\ \E i \in Particles \ usedParticleSet :
             particleVelocities[i] = InitialParticle(Layouts[1], i, 0).vel

(* speed above b thousandths of a world unit per frame *)
FasterThan(v, b) == v[1] * v[1] + v[2] * v[2] > b * b

C33_DissolvedPrunedAtOnce ==
    /\ [](\A k \in 1..Len(liveConstellations) :
             liveConstellations[k].state /= Dissolved)
    /\ [][time' = time + FrameDt =>
            \A k \in 1..Len(liveConstellations) :
               LET Pruned(id) ==
                      /\ (dissolveCalls'[id + 1] > dissolveCalls[id + 1])
                            <=> (After(k) = {})
                      /\ After(k) = {} =>
                            /\ id \notin sceneLines'
                            /\ \A i \in Claimed(liveConstellations[k]) :
                                  /\ particleBoost'[i] = 1000
                                  /\ i \notin usedParticleSet'
               IN  Pruned(liveConstellations[k].id)]_vars

(* a constellation has been dissolved and is off the list while another *)
(* is live, its particles boosted                                        *)
C33_Witness ==
    /\ DissolvedIds /= {}
    /\ \A k \in DissolvedIds :
          \A a \in 1..Len(liveConstellations) : liveConstellations[a].id /= k - 1
    /\ \E a \in LiveNow :
          \E i \in Claimed(liveConstellations[a]) : particleBoost[i] > 1000

(* C34: the choices of a search tick are fixed by the state it starts   *)
(* from (particles, claims, cooldowns, and the seed of a random source     *)
(* held in the state): any two runs of the tick from one state select the  *)
(* same template and the same particles. The program keeps no seed, so the *)
(* state is all there is to fix the choice.                                *)
C34_SameStateSameSelection ==
    [][SearchDue =>
         \A s, t \in findCluster(time') :
            /\ s.lastSearch = t.lastSearch
            /\ s.spawnedIndices = t.spawnedIndices
            /\ s.patternCooldownUntil = t.patternCooldownUntil]_vars

(* C35: the fields bound at the spawn are frozen. Whatever the step, a   *)
(* constellation that stays on the live list keeps its template index, its *)
(* particle-index list in content and order, its anchor snapshot, its      *)
(* initial maximum anchor distance and its form start time; and the        *)
(* constellation a frame adds has the positions of its particles at the    *)
(* search as anchors and the time of the frame as form start time.         *)
C35_SpawnFieldsFrozen ==
    [][/\ \A k \in 1..Len(liveConstellations) : \A j \in After(k) :
             /\ liveConstellations'[j].patternIndex = liveConstellations[k].patternIndex
             /\ liveConstellations'[j].particleIndices
                   = liveConstellations[k].particleIndices
             /\ liveConstellations'[j].anchorPositions
                   = liveConstellations[k].anchorPositions
             /\ liveConstellations'[j].initialMaxDist
                   = liveConstellations[k].initialMaxDist
             /\ liveConstellations'[j].formStartTime
                   = liveConstellations[k].formStartTime
       /\ \A j \in 1..Len(liveConstellations') :
             (\A k \in 1..Len(liveConstellations) :
                 liveConstellations[k].id /= liveConstellations'[j].id) =>
                /\ liveConstellations'[j].formStartTime = time'
                /\ liveConstellations'[j].anchorPositions =
                      [i \in 1..Len(liveConstellations'[j].particleIndices) |->
                          particlePositions[liveConstellations'[j].particleIndices[i]]]]_vars

(* a constellation has been Forming and Active and is Fading, every one *)
(* of its particles away from its anchor                                 *)
C35_Witness ==
    \E k \in 1..Len(liveConstellations) :
       /\ liveConstellations[k].state = Fading
       /\ stateTrace[liveConstellations[k].id + 1] = <<Forming, Active, Fading>>
       /\ \A i \in 1..Len(liveConstellations[k].particleIndices) :
             particlePositions[liveConstellations[k].particleIndices[i]]
                /= liveConstellations[k].anchorPositions[i]

(* C36: the particle indices of a live constellation are pairwise       *)
(* distinct and as many as its template has stars, and a search that       *)
(* spawns adds exactly that many entries to the claims table.              *)
C36_DistinctIndicesWithinConstellation ==
    /\ [](\A k \in 1..Len(liveConstellations) :
             /\ Len(liveConstellations[k].particleIndices)
                   = StarCount(liveConstellations[k].patternIndex)
             /\ Cardinality(Claimed(liveConstellations[k]))
                   = StarCount(liveConstellations[k].patternIndex))
    /\ [][SearchDue =>
            \A s \in findCluster(time') :
               s.lastSearch = "spawn" =>
                  /\ Len(s.live) = Len(liveConstellations) + 1
                  /\ usedParticleSet \subseteq s.used
                  /\ s.used \ usedParticleSet = Claimed(s.live[Len(s.live)])
                  /\ Cardinality(s.used \ usedParticleSet)
                        = StarCount(s.live[Len(s.live)].patternIndex)]_vars

(* a search has just spawned a constellation, its particles added to a *)
(* claims table that held the particles of another                     *)
C36_Witness ==
    /\ lastSearch = "spawn"
    /\ lastClusterSearch = time
    /\ \E k \in 1..Len(liveConstellations) :
          /\ liveConstellations[k].formStartTime = time
          /\ Cardinality(Claimed(liveConstellations[k])) >= 5
          /\ Cardinality(usedParticleSet) > Cardinality(Claimed(liveConstellations[k]))

(* C37: for every live constellation the draw progress of each edge is *)
(* within [0, 1] and no less than that of the next edge; from one frame   *)
(* to the next no progress decreases, and once the constellation has left *)
(* Forming no progress changes, edges left partial included.              *)
C37_ProgressOrderedAndMonotone ==
    /\ [](\A k \in 1..Len(liveConstellations) :
             \A li \in 1..Len(liveConstellations[k].lineProgress) :
                /\ liveConstellations[k].lineProgress[li] >= 0
                /\ liveConstellations[k].lineProgress[li] <= 1000
                /\ li > 1 => liveConstellations[k].lineProgress[li - 1]
                               >= liveConstellations[k].lineProgress[li])
    /\ [][\A k \in 1..Len(liveConstellations) : \A j \in After(k) :
             \A li \in 1..Len(liveConstellations[k].lineProgress) :
                /\ liveConstellations'[j].lineProgress[li]
                      >= liveConstellations[k].lineProgress[li]
                /\ liveConstellations[k].state /= Forming =>
                      liveConstellations'[j].lineProgress[li]
                         = liveConstellations[k].lineProgress[li]]_vars

(* a constellation left Forming for Fading with one edge drawn, one edge *)
(* partly drawn and one edge not begun, and has been Fading for a while   *)
C37_Witness ==
    \E k \in 1..Len(liveConstellations) :
       /\ liveConstellations[k].state = Fading
       /\ time > liveConstellations[k].fadeStartTime
       /\ \E a, b, c \in 1..Len(liveConstellations[k].lineProgress) :
             /\ liveConstellations[k].lineProgress[a] = 1000
             /\ liveConstellations[k].lineProgress[b] > 0
             /\ liveConstellations[k].lineProgress[b] < 1000
             /\ liveConstellations[k].lineProgress[c] = 0

(* C38: once dispose() has run the live list and the claims table are    *)
(* empty and no line is on the scene, and no later step - a frame          *)
(* callback, a context lost or restored, a resize, dispose() again -       *)
(* advances the time, runs a search, spawns, creates or disposes a         *)
(* geometry, or moves a particle.                                          *)
C38_NothingRunsAfterDispose ==
    /\ [](disposed => /\ liveConstellations = <<>>
                      /\ usedParticleSet = {}
                      /\ sceneLines = {})
    /\ [][disposed =>
            UNCHANGED <<time, disposed, liveConstellations, usedParticleSet,
                        lastClusterSearch, lastSearch, colorCycleIndex,
                        patternCooldownUntil, sceneLines, geometryDisposals,
                        dissolveCalls, stateTrace, spawnedIndices,
                        particlePositions, particleVelocities, particleBoost>>]_vars

(* dispose() has run on a field that had claimed particles for a         *)
(* constellation, and the context is lost                                *)
C38_Witness ==
    /\ disposed
    /\ contextLost
    /\ \E k \in 1..Len(geometryDisposals) :
          /\ geometryDisposals[k] = 1
          /\ dissolveCalls[k] = 0
    /\ usedParticleSet = {}

(* C39: with context-lost and context-restored events alternating, lost  *)
(* first, at most one frame callback is pending in every state; none is    *)
(* pending while the context is lost, and no step between a context-lost   *)
(* and the next context-restored advances the time; every step that        *)
(* advances the time advances it by one frame, is one call of animate()    *)
(* and leaves its request as the one pending callback.                     *)
C39_AtMostOneFramePending ==
    /\ [](/\ Cardinality(rafQueue) <= 1
          /\ contextLost => rafQueue = {})
    /\ [][/\ (contextLost /\ contextLost') => time' = time
          /\ time' /= time =>
                /\ time' = time + FrameDt
                /\ rafId' = rafId + 1
                /\ rafQueue' = {rafId'}]_vars

(* the context is lost while a constellation is live, its frame request *)
(* cancelled                                                             *)
C39_Witness ==
    /\ contextLost
    /\ ~disposed
    /\ rafQueue = {}
    /\ rafId > 0
    /\ liveConstellations /= <<>>

====
